---- MODULE Spec2Model ----
(***************************************************************************)
(* Model of the HAR ingestion-and-decision pipeline:                       *)
(*   - src/src/pipeline/condition_matcher.py  (ConditionMatcher)           *)
(*   - src/src/pipeline/decision_engine.py    (DecisionEngine)             *)
(*   - src/src/parser/table_parser.py         (TableParser)                *)
(*   - src/app/routes/api.py                  (generate_har loop)          *)
(* Python strings are TLA+ strings handled character by character, so that *)
(* substring tests, lower-casing, splitting and number parsing are         *)
(* computed and not assumed.  Distances are fixed-point numbers, in tenths *)
(* of a kilometre (50.0 km is 500).                                        *)
(***************************************************************************)
EXTENDS Integers, Sequences, FiniteSets, TLC

VARIABLES
    component,   \* which part of the pipeline this behaviour exercises
    schema,      \* DecisionEngine.schema, loaded once (api.py:19-21)
    assessment,  \* the Assessment handed to process_assessment
    pc,          \* position of the current call: "ready" or "done"
    report,      \* what process_assessment returned or raised
    status,      \* ConditionMatcher input: the status text
    volcano,     \* ConditionMatcher.match_lahar input: the volcano name
    conditions,  \* ConditionMatcher.match_status input: key -> template
    matched,     \* what the matchers returned
    text,        \* TableParser.parse_from_text input
    parsed,      \* what parse_from_text returned or raised
    hars,        \* the results list built by generate_har
    rendered,    \* what a caller got from to_text and to_dict of the returned report
    calls,       \* the frames of the requests in flight on the one shared engine
    data,        \* the schema file SchemaLoader.load reads
    loaded       \* what SchemaLoader.load returned or raised

vars == <<component, schema, assessment, pc, report, status, volcano,
          conditions, matched, text, parsed, hars, rendered, calls, data, loaded>>

-----------------------------------------------------------------------------
(* Python values *)

\* Python's None, where a string is expected
None == "<None>"

\* The not-assessed sentinel of the OHAS tables
NotAssessed == "--"

\* bool(s) of an Optional[str]
Truthy(s) == s # None /\ s # ""

-----------------------------------------------------------------------------
(* Strings, character by character *)

UpperAlphabet == "ABCDEFGHIJKLMNOPQRSTUVWXYZ"
LowerAlphabet == "abcdefghijklmnopqrstuvwxyz"
Digits == "0123456789"

CharAt(s, i) == SubSeq(s, i, i)

\* s[i:] with a 1-based i
From(s, i) == SubSeq(s, i, Len(s))

\* position of the one-character string c in alphabet, 0 when absent
IndexIn(c, alphabet) ==
    IF \E i \in 1..Len(alphabet) : CharAt(alphabet, i) = c
    THEN CHOOSE i \in 1..Len(alphabet) : CharAt(alphabet, i) = c
    ELSE 0

\* str.lower(), by halves: the characters lo..hi of s, lower-cased
Lower(s) ==
    LET LowerChar(c) ==
            LET i == IndexIn(c, UpperAlphabet)
            IN  IF i = 0 THEN c ELSE CharAt(LowerAlphabet, i)
        RECURSIVE LowerRange(_, _)
        LowerRange(lo, hi) ==
            IF lo > hi THEN ""
            ELSE IF lo = hi THEN LowerChar(CharAt(s, lo))
            ELSE LowerRange(lo, (lo + hi) \div 2) \o LowerRange((lo + hi) \div 2 + 1, hi)
    IN  LowerRange(1, Len(s))

\* str.upper(), by halves
Upper(s) ==
    LET UpperChar(c) ==
            LET i == IndexIn(c, LowerAlphabet)
            IN  IF i = 0 THEN c ELSE CharAt(UpperAlphabet, i)
        RECURSIVE UpperRange(_, _)
        UpperRange(lo, hi) ==
            IF lo > hi THEN ""
            ELSE IF lo = hi THEN UpperChar(CharAt(s, lo))
            ELSE UpperRange(lo, (lo + hi) \div 2) \o UpperRange((lo + hi) \div 2 + 1, hi)
    IN  UpperRange(1, Len(s))

\* s.startswith(p) at 1-based offset i
StartsAt(s, i, p) == i + Len(p) - 1 <= Len(s) /\ SubSeq(s, i, i + Len(p) - 1) = p

\* p in s
Contains(s, p) == \E i \in 1..(Len(s) - Len(p) + 1) : StartsAt(s, i, p)

\* s.find(p, i - 1) + 1: the leftmost 1-based position >= i of p in s, 0 when absent
FindFrom(s, p, i) ==
    LET hits == {k \in i..(Len(s) - Len(p) + 1) : StartsAt(s, k, p)}
    IN  IF hits = {} THEN 0 ELSE CHOOSE k \in hits : \A j \in hits : k <= j

Find(s, p) == FindFrom(s, p, 1)

IsDigit(c) == IndexIn(c, Digits) # 0
IsSpace(c) == c \in {" ", "\t", "\n", "\r"}
IsWordChar(c) ==
    IndexIn(c, UpperAlphabet) # 0 \/ IndexIn(c, LowerAlphabet) # 0 \/ IsDigit(c) \/ c = "_"

\* first position >= i whose character fails the test, Len(s)+1 when none
RECURSIVE SkipSpaces(_, _)
SkipSpaces(s, i) ==
    IF i <= Len(s) /\ IsSpace(CharAt(s, i)) THEN SkipSpaces(s, i + 1) ELSE i

RECURSIVE SkipDigitsDots(_, _)
SkipDigitsDots(s, i) ==
    IF i <= Len(s) /\ (IsDigit(CharAt(s, i)) \/ CharAt(s, i) = ".")
    THEN SkipDigitsDots(s, i + 1) ELSE i

RECURSIVE SkipDigits(_, _)
SkipDigits(s, i) ==
    IF i <= Len(s) /\ IsDigit(CharAt(s, i)) THEN SkipDigits(s, i + 1) ELSE i

RECURSIVE SkipWord(_, _)
SkipWord(s, i) ==
    IF i <= Len(s) /\ IsWordChar(CharAt(s, i)) THEN SkipWord(s, i + 1) ELSE i

\* str.strip()
RECURSIVE RStripEnd(_, _)
RStripEnd(s, j) ==
    IF j >= 1 /\ IsSpace(CharAt(s, j)) THEN RStripEnd(s, j - 1) ELSE j

Strip(s) ==
    LET i == SkipSpaces(s, 1)
        j == RStripEnd(s, Len(s))
    IN  IF i > j THEN "" ELSE SubSeq(s, i, j)

\* str.replace(old, new)
RECURSIVE Replace(_, _, _)
Replace(s, old, new) ==
    LET i == Find(s, old)
    IN  IF i = 0 THEN s
        ELSE SubSeq(s, 1, i - 1) \o new \o Replace(From(s, i + Len(old)), old, new)

\* the value of a run of decimal digits
RECURSIVE DigitsValue(_, _)
DigitsValue(s, n) ==
    IF n = 0 THEN 0
    ELSE 10 * DigitsValue(s, n - 1) + (IndexIn(CharAt(s, n), Digits) - 1)

\* str.split(sep) for a one-character separator
RECURSIVE Split(_, _)
Split(s, sep) ==
    LET i == Find(s, sep)
    IN  IF i = 0 THEN <<s>>
        ELSE <<SubSeq(s, 1, i - 1)>> \o Split(From(s, i + 1), sep)

\* " ".join(parts)
RECURSIVE Join(_, _)
Join(parts, sep) ==
    IF Len(parts) = 0 THEN ""
    ELSE IF Len(parts) = 1 THEN parts[1]
    ELSE parts[1] \o sep \o Join(Tail(parts), sep)

-----------------------------------------------------------------------------
(* The rule schema (models/schema.py).  The rule texts are data of the     *)
(* schema file; the PDZ rule is the one of test_pdz_fix.create_test_schema *)

\* dict.get(key): the rule, or a record standing for None
Get(rules, key) == IF key \in DOMAIN rules THEN rules[key] ELSE [isNone |-> TRUE]

Rule(explanation, recommendation, special_cases) ==
    [isNone |-> FALSE, explanation |-> explanation,
     recommendation |-> recommendation, special_cases |-> special_cases]

\* special_cases = None
NoCases == [isNone |-> TRUE]

\* special_cases of the PDZ rule, in the dict's insertion order
PdzSpecialCases ==
  [isNone |-> FALSE, entries |->
    << [key |-> "Mayon",   radius_km |-> 60, explanation |-> "Mayon Volcano has a 6-km PDZ."],
       [key |-> "Taal",    radius_km |-> 40, explanation |-> "Taal Volcano Island is the PDZ."],
       [key |-> "Kanlaon", radius_km |-> 40, explanation |-> "Kanlaon Volcano has a 4-km PDZ."] >>]

PdzRule ==
    Rule("The Permanent Danger Zone (PDZ) of {volcano_name} Volcano extends {radius} km from the crater.",
         "Human settlement is not recommended within the PDZ.",
         PdzSpecialCases)

LaharSpecialCases ==
    [isNone |-> FALSE,
     pinatubo |-> [intro |-> "Pinatubo lahar zones.",
                   zones |-> [z \in {"zone_1", "zone_2", "zone_3", "zone_4", "zone_5"} |->
                                 [explanation |-> "Explanation of " \o z \o "."]]],
     mayon    |-> [intro |-> "Mayon lahar levels.",
                   zones |-> [z \in {"highly_prone", "moderately_prone", "least_prone"} |->
                                 [explanation |-> "Explanation of " \o z \o "."]]]]

AshfallTemplate ==
    "In case of future eruptions of {volcano_name} Volcano, the site may be affected by ashfall."

FullVolcanoRules ==
    [k \in {"pdz_danger_zone", "lahar", "pyroclastic_density_current", "lava_flow",
            "ballistic_projectiles", "base_surge", "volcanic_tsunami", "fissure", "common"} |->
        CASE k = "pdz_danger_zone" -> PdzRule
          [] k = "lahar" -> Rule("Lahar explanation.", "Lahar recommendation.", LaharSpecialCases)
          [] k = "pyroclastic_density_current" ->
                Rule("PDC explanation.", "Avoidance is recommended for PDC.", NoCases)
          [] k = "lava_flow" -> Rule("Lava flow explanation.", "Lava flow recommendation.", NoCases)
          [] k = "ballistic_projectiles" ->
                Rule("Ballistic explanation.", "Ballistic recommendation.", NoCases)
          [] k = "base_surge" -> Rule("Base surge explanation.", "Base surge recommendation.", NoCases)
          [] k = "volcanic_tsunami" ->
                Rule("Volcanic tsunami explanation.", "Volcanic tsunami recommendation.", NoCases)
          [] k = "fissure" ->
                Rule("Fissure explanation.", "Fissure recommendation.",
                     [isNone |-> FALSE, taal |-> [reporting |-> "Report fissures to DOST-PHIVOLCS."]])
          [] k = "common" ->
                Rule(None, None, [isNone |-> FALSE, hasAshfall |-> TRUE, template |-> AshfallTemplate])]

FullEarthquakeRules ==
    [k \in {"active_fault", "liquefaction", "earthquake_induced_landslide", "tsunami", "fissure"} |->
        CASE k = "active_fault" -> Rule("Ground rupture explanation.", "Buffer zone recommendation.", NoCases)
          [] k = "liquefaction" -> Rule(None, "Follow the National Building Code.", NoCases)
          [] k = "earthquake_induced_landslide" ->
                Rule("Landslide explanation.", "Landslide recommendation.", NoCases)
          [] k = "tsunami" -> Rule("Tsunami explanation.", "Tsunami recommendation.", NoCases)
          [] k = "fissure" -> Rule("Fissure explanation.", "Fissure recommendation.", NoCases)]

\* the schema as loaded, with every rule present
FullSchema == [earthquake_rules |-> FullEarthquakeRules, volcano_rules |-> FullVolcanoRules]

\* a schema without the PDZ and 'common' rules (HazardRulesSchema built directly,
\* as test_pdz_fix.py builds one with only the rules it needs)
PartialSchema ==
    [earthquake_rules |-> FullEarthquakeRules,
     volcano_rules |-> [k \in DOMAIN FullVolcanoRules \ {"pdz_danger_zone", "common"} |->
                            FullVolcanoRules[k]]]

\* a schema whose 'common' rule holds other statements but no 'ashfall' entry
\* (from_dict stores the whole 'common' dict as special_cases)
NoAshfallSchema ==
    [earthquake_rules |-> FullEarthquakeRules,
     volcano_rules |-> [k \in DOMAIN FullVolcanoRules |->
                            IF k = "common"
                            THEN Rule(None, None,
                                      [isNone |-> FALSE, hasAshfall |-> FALSE, template |-> ""])
                            ELSE FullVolcanoRules[k]]]

Schemas == {FullSchema, PartialSchema, NoAshfallSchema}

\* the schema of test_pdz_fix.create_test_schema: no earthquake rule, and the
\* PDZ rule as the only volcano rule
PdzTestSchema ==
    [earthquake_rules |-> [k \in {} |-> NoCases],
     volcano_rules |-> [k \in {"pdz_danger_zone"} |-> FullVolcanoRules[k]]]

-----------------------------------------------------------------------------
(* Report model (models/har_output.py) *)

\* ExplanationRecommendation.from_parts: the combined text, or ValueError
FromParts(explanation, recommendation) ==
    LET parts == (IF Truthy(explanation) THEN <<explanation>> ELSE <<>>) \o
                 (IF Truthy(recommendation) THEN <<recommendation>> ELSE <<>>)
    IN  IF Len(parts) = 0
        THEN [ok |-> FALSE, error |-> "ValueError"]
        ELSE [ok |-> TRUE, text |-> Join(parts, " ")]

\* a hazard step returned None
NoSection == [kind |-> "none"]

\* a hazard step let an exception escape
Raised(e) == [kind |-> "raise", error |-> e]

\* HARSection(heading, assessment, explanation_recommendation), where building the
\* ExplanationRecommendation may have raised ValueError
Section(heading, st, er) ==
    IF er.ok
    THEN [kind |-> "section", heading |-> heading, assessment |-> st, text |-> er.text]
    ELSE Raised(er.error)

-----------------------------------------------------------------------------
(* DecisionEngine: the nearest-volcano micro-grammar *)

\* float(s) for a run of digits and dots, in tenths (inputs carry one decimal at most)
ParseFloat10(num) ==
    LET dot == Find(num, ".")
        intPart == IF dot = 0 THEN num ELSE SubSeq(num, 1, dot - 1)
        frac == IF dot = 0 THEN "" ELSE From(num, dot + 1)
    IN  IF Contains(frac, ".") \/ (intPart = "" /\ frac = "")
        THEN [ok |-> FALSE]
        ELSE [ok |-> TRUE,
              value |-> 10 * DigitsValue(intPart, Len(intPart))
                        + (IF frac = "" THEN 0 ELSE IndexIn(CharAt(frac, 1), Digits) - 1)]

\* re.search(r"Approximately\s+([\d.]+)\s*(?:km|kilometers)\s+(\w+)\s+of\s+(.+?)\s+Volcano",
\*           text, re.IGNORECASE), matched from the first "Approximately" of the text
MatchNearestVolcano(t) ==
    LET lt == Lower(t)
        NoMatch == [matched |-> FALSE]
        i == Find(lt, "approximately")
        \* (?:km|kilometers)\s: the position after the unit starting at q, 0 for no unit
        AfterUnit(q) ==
            IF StartsAt(lt, q, "km") /\ q + 2 <= Len(t) /\ IsSpace(CharAt(t, q + 2))
            THEN q + 2
            ELSE IF StartsAt(lt, q, "kilometers") /\ q + 10 <= Len(t)
                    /\ IsSpace(CharAt(t, q + 10))
            THEN q + 10
            ELSE 0
        \* (.+?)\s+Volcano: the ends of a name that starts at q
        Ends(q) ==
            {e \in q..Len(t) :
                /\ ~Contains(SubSeq(t, q, e), "\n")
                /\ e + 1 <= Len(t)
                /\ IsSpace(CharAt(t, e + 1))
                /\ StartsAt(lt, SkipSpaces(t, e + 1), "volcano")}
        \* the groups, given where each part of the pattern starts and ends
        Groups(p1, p2, p3, p5, p6, p7, p8, p10, ends) ==
            IF /\ p2 > p1
               /\ p3 > p2
               /\ p5 # 0
               /\ p7 > p6
               /\ p8 > p7
               /\ StartsAt(lt, p8, "of")
               /\ p10 > p8 + 2
               /\ ends # {}
            THEN [matched |-> TRUE,
                  number |-> SubSeq(t, p2, p3 - 1),
                  direction |-> SubSeq(t, p6, p7 - 1),
                  name |-> SubSeq(t, p10, CHOOSE e \in ends : \A f \in ends : e <= f)]
            ELSE NoMatch
        Name(p1, p2, p3, p5, p6, p7, p8, p10) ==
            Groups(p1, p2, p3, p5, p6, p7, p8, p10, Ends(p10))
        Of(p1, p2, p3, p5, p6, p7, p8) ==
            Name(p1, p2, p3, p5, p6, p7, p8, SkipSpaces(t, p8 + 2))
        Direction(p1, p2, p3, p5, p6, p7) == Of(p1, p2, p3, p5, p6, p7, SkipSpaces(t, p7))
        Unit(p1, p2, p3, p5, p6) == Direction(p1, p2, p3, p5, p6, SkipWord(t, p6))
        Number(p1, p2, p3, p5) == Unit(p1, p2, p3, p5, SkipSpaces(t, p5))
        Digits3(p1, p2, p3) == Number(p1, p2, p3, AfterUnit(SkipSpaces(t, p3)))
        Spaces(p1, p2) == Digits3(p1, p2, SkipDigitsDots(t, p2))
        Word(p1) == Spaces(p1, SkipSpaces(t, p1))
    IN  IF i = 0 THEN NoMatch ELSE Word(i + Len("approximately"))

\* _parse_nearest_volcano: distance (tenths of km), direction and name, or the
\* exception that escapes (re.search on None, float of a malformed number)
ParseNearestVolcano(a) ==
    LET t == a.volcano.nearest_active_volcano
    IN  IF t = None THEN [raise |-> "TypeError"]
        ELSE
        LET Converted(m, f) ==
                IF f.ok
                THEN [raise |-> "", distance |-> f.value,
                      direction |-> m.direction, name |-> m.name]
                ELSE [raise |-> "ValueError"]
            Parsed(m) ==
                IF m.matched
                THEN Converted(m, ParseFloat10(m.number))
                ELSE [raise |-> "", distance |-> 0,
                      direction |-> "unknown", name |-> "Unknown Volcano"]
        IN  Parsed(MatchNearestVolcano(t))

-----------------------------------------------------------------------------
(* DecisionEngine: distance-based safety *)

\* the 50.0 km threshold of _check_distance_based_safety, in tenths
DistanceSafeThreshold == 500

CheckDistanceBasedSafetyGe(a, distance_km) == distance_km >= DistanceSafeThreshold

\* _check_distance_based_safety
CheckDistanceBasedSafety(a, distance_km) == distance_km > DistanceSafeThreshold

SafetyText ==
    "Considering the distance of the site from the volcano, the site is safe from volcanic hazards such as pyroclastic density currents, lava flows, and ballistic projectiles that may originate from the volcano."

-----------------------------------------------------------------------------
(* DecisionEngine: the danger-zone step *)

\* the loop of _process_pdz over special_cases: the first key that contains the
\* lower-cased name or is contained in it
PdzLookup(cases, volcano_lower) ==
    LET hits == {k \in 1..Len(cases) :
                    \/ Contains(volcano_lower, Lower(cases[k].key))
                    \/ Contains(Lower(cases[k].key), volcano_lower)}
    IN  IF hits = {} THEN [found |-> FALSE]
        ELSE [found |-> TRUE, config |-> cases[CHOOSE k \in hits : \A j \in hits : k <= j]]

\* radius_km after the loop: the Taal entry never sets it (it returns None when it
\* has an explanation, and leaves the radius unset otherwise)
PdzRadius(rule, volcano_name) ==
    LET Radius(hit) ==
            IF ~hit.found THEN [isNone |-> TRUE]
            ELSE IF Lower(hit.config.key) = "taal" THEN [isNone |-> TRUE]
            ELSE [isNone |-> FALSE, value |-> hit.config.radius_km]
    IN  Radius(PdzLookup(IF rule.special_cases.isNone THEN <<>>
                         ELSE rule.special_cases.entries,
                         Lower(volcano_name)))

\* int(radius_km) formatted into the text
RadiusText(radius_km) == ToString(radius_km \div 10)

WithinPdzLe(distance_km, radius_km) == distance_km <= radius_km

\* the comparison of _process_pdz
WithinPdz(distance_km, radius_km) == distance_km < radius_km

\* _process_pdz
ProcessPdz(a, volcano_name, sch) ==
    LET rule == Get(sch.volcano_rules, "pdz_danger_zone")
    IN  IF rule.isNone THEN NoSection
        ELSE
        LET PdzSection(radius, info) ==
            IF radius.isNone THEN NoSection
            ELSE IF info.raise = "TypeError" THEN NoSection
            ELSE IF info.raise # "" THEN Raised(info.raise)
            ELSE IF WithinPdz(info.distance, radius.value)
            THEN Section("PDZ (Permanent Danger Zone)",
                         "Within PDZ; The site is within the " \o RadiusText(radius.value)
                            \o "-kilometer radius Permanent Danger Zone",
                         FromParts(
                            Replace(Replace(IF Truthy(rule.explanation) THEN rule.explanation ELSE "",
                                            "{volcano_name}", volcano_name),
                                    "{radius}", RadiusText(radius.value)),
                            IF Truthy(rule.recommendation) THEN rule.recommendation ELSE ""))
            ELSE Section("PDZ (Permanent Danger Zone)",
                         "Outside PDZ; The site is outside the " \o RadiusText(radius.value)
                            \o "-kilometer radius Permanent Danger Zone",
                         FromParts(
                            "The Permanent Danger Zone (PDZ) is a zone that can always be affected by small-scale eruptions of "
                              \o volcano_name
                              \o " Volcano. Human settlement is not recommended within the PDZ."
                              \o " " \o "The site is outside the " \o RadiusText(radius.value)
                              \o "-kilometer radius Permanent Danger Zone of the volcano.",
                            None))
        IN  PdzSection(PdzRadius(rule, volcano_name), ParseNearestVolcano(a))

-----------------------------------------------------------------------------
(* DecisionEngine: the other volcanic hazard steps *)

\* `if not status or status == "--": return None`
StatusAbsent(st) == ~Truthy(st) \/ st = NotAssessed

\* re.search(r'Zone\s+([1-5])', status, re.IGNORECASE): the digit, or "" for no match
ZoneNumber(st) ==
    LET ls == Lower(st)
        hits == {i \in 1..Len(st) :
                    /\ StartsAt(ls, i, "zone")
                    /\ i + 4 <= Len(st)
                    /\ IsSpace(CharAt(st, i + 4))
                    /\ SkipSpaces(st, i + 4) <= Len(st)
                    /\ CharAt(st, SkipSpaces(st, i + 4)) \in {"1", "2", "3", "4", "5"}}
    IN  IF hits = {} THEN ""
        ELSE CharAt(st, SkipSpaces(st, (CHOOSE i \in hits : \A j \in hits : i <= j) + 4))

\* the Pinatubo branch of _process_lahar: the explanation it leaves
PinatuboExplanation(rule, st) ==
    LET sc == rule.special_cases
        ForZone(zone) ==
            IF sc.isNone \/ "pinatubo" \notin DOMAIN sc THEN rule.explanation
            ELSE IF zone = "" THEN rule.explanation
            ELSE IF ("zone_" \o zone) \notin DOMAIN sc.pinatubo.zones THEN rule.explanation
            ELSE IF sc.pinatubo.intro # "" /\ sc.pinatubo.zones["zone_" \o zone].explanation # ""
            THEN sc.pinatubo.intro \o " " \o sc.pinatubo.zones["zone_" \o zone].explanation
            ELSE rule.explanation
    IN  ForZone(ZoneNumber(st))

\* the Mayon branch of _process_lahar: the explanation it leaves
MayonExplanation(rule, st) ==
    LET sc == rule.special_cases
        level == IF Contains(st, "Highly Prone") THEN "highly_prone"
                 ELSE IF Contains(st, "Moderately Prone") THEN "moderately_prone"
                 ELSE IF Contains(st, "Least Prone") THEN "least_prone"
                 ELSE ""
    IN  IF sc.isNone \/ "mayon" \notin DOMAIN sc THEN rule.explanation
        ELSE IF level = "" \/ level \notin DOMAIN sc.mayon.zones THEN rule.explanation
        ELSE IF sc.mayon.intro # "" /\ sc.mayon.zones[level].explanation # ""
        THEN sc.mayon.intro \o " " \o sc.mayon.zones[level].explanation
        ELSE rule.explanation

\* _process_lahar
ProcessLahar(a, volcano_name, sch) ==
    LET st == a.volcano.lahar
        rule == Get(sch.volcano_rules, "lahar")
        volcano_lower == Lower(volcano_name)
        LaharSection(explanation) ==
            IF ~Truthy(explanation) THEN NoSection
            ELSE Section("Lahar", st, FromParts(explanation, rule.recommendation))
    IN  IF StatusAbsent(st) THEN NoSection
        ELSE IF Contains(st, "Safe") THEN NoSection
        ELSE IF rule.isNone THEN NoSection
        ELSE LaharSection(IF Contains(volcano_lower, "pinatubo")
                          THEN PinatuboExplanation(rule, st)
                          ELSE IF Contains(volcano_lower, "mayon")
                          THEN MayonExplanation(rule, st)
                          ELSE rule.explanation)

RuleSectionRecommendationOnly(st, sch, key, heading) ==
    LET rule == Get(sch.volcano_rules, key)
    IN  IF rule.isNone THEN NoSection
        ELSE IF ~Truthy(rule.explanation) THEN NoSection
        ELSE Section(heading, st, FromParts(None, rule.recommendation))

\* the tail shared by the direct schema-rule steps: rule lookup, explanation
\* check and the Section
RuleSection(st, sch, key, heading) ==
    LET rule == Get(sch.volcano_rules, key)
    IN  IF rule.isNone THEN NoSection
        ELSE IF ~Truthy(rule.explanation) THEN NoSection
        ELSE Section(heading, st, FromParts(rule.explanation, rule.recommendation))

\* _process_pyroclastic_flow ("Safe" is tested case-sensitively)
ProcessPyroclasticFlow(a, sch) ==
    LET st == a.volcano.pyroclastic_flow
    IN  IF StatusAbsent(st) THEN NoSection
        ELSE IF Contains(st, "Safe") THEN NoSection
        ELSE RuleSection(st, sch, "pyroclastic_density_current", "Pyroclastic Density Current")

\* _process_lava_flow
ProcessLavaFlow(a, sch) ==
    LET st == a.volcano.lava_flow
    IN  IF StatusAbsent(st) THEN NoSection
        ELSE IF Contains(Lower(st), "safe") THEN NoSection
        ELSE RuleSection(st, sch, "lava_flow", "Lava Flow")

\* _process_ballistic_projectiles
ProcessBallisticProjectiles(a, sch) ==
    LET st == a.volcano.ballistic_projectile
    IN  IF StatusAbsent(st) THEN NoSection
        ELSE IF Contains(Lower(st), "safe") THEN NoSection
        ELSE RuleSection(st, sch, "ballistic_projectiles", "Ballistic Projectiles")

\* _process_base_surge
ProcessBaseSurge(a, sch) ==
    LET st == a.volcano.base_surge
    IN  IF StatusAbsent(st) THEN NoSection
        ELSE IF Contains(Lower(st), "safe") THEN NoSection
        ELSE RuleSection(st, sch, "base_surge", "Base Surge")

\* _process_volcanic_tsunami
ProcessVolcanicTsunami(a, sch) ==
    LET st == a.volcano.volcanic_tsunami
    IN  IF StatusAbsent(st) THEN NoSection
        ELSE IF Contains(Lower(st), "safe") THEN NoSection
        ELSE RuleSection(st, sch, "volcanic_tsunami", "Volcanic Tsunami")

\* _process_fissure: reading rule.development raises AttributeError, which the
\* step's own except clause turns into None
ProcessFissure(a, volcano_name, distance_km, sch) ==
    LET st == a.volcano.fissure
        \* the attributes of the HazardRule dataclass
        HazardRuleFields ==
            {"name", "explanation", "explanation_alt", "recommendation",
             "recommendation_alt", "conditions", "special_cases", "applies_to"}
        rule == Get(sch.volcano_rules, "fissure")
        reporting == IF /\ Contains(Lower(volcano_name), "taal")
                        /\ ~rule.special_cases.isNone
                        /\ "taal" \in DOMAIN rule.special_cases
                     THEN rule.special_cases.taal.reporting
                     ELSE ""
        recommendation == (IF Truthy(rule.recommendation) THEN rule.recommendation ELSE "")
                          \o (IF reporting # "" THEN " " \o reporting ELSE "")
    IN  IF distance_km > DistanceSafeThreshold THEN NoSection
        ELSE IF StatusAbsent(st) THEN NoSection
        ELSE IF rule.isNone THEN NoSection
        ELSE IF "development" \notin HazardRuleFields THEN NoSection
        ELSE IF ~Truthy(rule.explanation) THEN NoSection
        ELSE Section("Fissure", st, FromParts(rule.explanation, recommendation))

\* one `if volcano.<field>:` block of _check_needs_avoidance
AvoidanceHit(st, words) ==
    /\ Truthy(st)
    /\ \E w \in words : Contains(Lower(st), w)
    /\ ~Contains(Lower(st), "safe")

\* _check_needs_avoidance
CheckNeedsAvoidance(a) ==
    \/ AvoidanceHit(a.volcano.lahar, {"prone", "susceptible"})
    \/ AvoidanceHit(a.volcano.pyroclastic_flow, {"prone", "susceptible", "within"})
    \/ AvoidanceHit(a.volcano.lava_flow, {"prone", "within"})
    \/ AvoidanceHit(a.volcano.ballistic_projectile, {"prone", "within"})

\* _get_avoidance_recommendation
AvoidanceRecommendation(sch) ==
    LET pdc_rule == Get(sch.volcano_rules, "pyroclastic_density_current")
    IN  IF ~pdc_rule.isNone /\ Truthy(pdc_rule.recommendation)
        THEN FromParts(None, pdc_rule.recommendation)
        ELSE FromParts(None,
                       "Avoidance is recommended for site/sites that may potentially be affected by pyroclastic density currents (PDCs) and lava flows.")

\* _get_ashfall_statement
AshfallStatement(volcano_name, sch) ==
    LET common_rule == Get(sch.volcano_rules, "common")
        template == IF ~common_rule.isNone /\ ~common_rule.special_cases.isNone
                    THEN IF common_rule.special_cases.hasAshfall
                         THEN common_rule.special_cases.template
                         ELSE ""
                    ELSE "In case of future eruptions of {volcano_name} Volcano and other nearby volcanoes, the site/s may be affected by tephra fall/ ashfall depending on the height of the eruption plume and prevailing wind direction at the time of eruption."
    IN  FromParts(Replace(template, "{volcano_name}", volcano_name), None)

\* _get_pav_statement
PavStatement(pav_text) ==
    LET \* the 1-based position of the last occurrence of p in s, 0 when absent
        FindLast(s, p) ==
            IF Contains(s, p)
            THEN CHOOSE i \in 1..(Len(s) - Len(p) + 1) :
                    /\ StartsAt(s, i, p)
                    /\ \A j \in (i + 1)..(Len(s) - Len(p) + 1) : ~StartsAt(s, j, p)
            ELSE 0
        after == From(pav_text, FindLast(pav_text, "of ") + 3)
        cut == Find(after, " Volcano")
        volcano_name == IF Contains(pav_text, "of ") /\ Contains(pav_text, "Volcano")
                        THEN Strip(IF cut = 0 THEN after ELSE SubSeq(after, 1, cut - 1))
                        ELSE "Unknown"
    IN  FromParts(volcano_name
                    \o " Volcano is currently classified by DOST-PHIVOLCS as a potentially active volcano, which is morphologically young-looking but with no historical or analytical records of eruption, therefore, its eruptive and hazard potential is yet to be determined.",
                  None)

-----------------------------------------------------------------------------
(* DecisionEngine: the two workflows *)

\* _get_intro_statement
IntroStatement(a) ==
    "All hazard assessments are based on the latest available hazard maps and on the location indicated "
      \o (IF a.vicinity_map_provided THEN "in the vicinity map provided."
                                     ELSE "by the coordinates provided.")

\* _get_supersedes_statement(single_site=True)
SupersedesStatement == "This assessment supersedes all previous reports issued for this site."

\* _get_additional_recommendations
AdditionalRecommendations ==
    <<"For more information on geohazards in the Philippines, please visit HazardHunterPH (https://hazardhunter.georisk.gov.ph/) and GeoAnalyticsPH (https://geoanalytics.georisk.gov.ph/).">>

\* HAROutput(...)
Report(category, intro, sections, common) ==
    [kind |-> "report", category |-> category, intro |-> intro, sections |-> sections,
     common_statements |-> common, supersedes |-> SupersedesStatement,
     additional_recommendations |-> AdditionalRecommendations]

\* an exception left process_assessment
Failure(e) == [kind |-> "error", error |-> e]

\* HARSection.to_numbered_point
ToNumberedPoint(section, number) ==
    ToString(number) \o ". " \o section.heading \o ": " \o section.assessment \o ". "
        \o section.text

\* each line followed by an empty line
RECURSIVE Spaced(_)
Spaced(lines) ==
    IF lines = <<>> THEN <<>> ELSE <<Head(lines), "">> \o Spaced(Tail(lines))

\* to_text with the common statements numbered from 1 again
ToTextRestarting(har) ==
    LET points == [k \in 1..Len(har.sections) |-> ToNumberedPoint(har.sections[k], k)]
        common == [k \in 1..Len(har.common_statements) |->
                      ToString(k) \o ". " \o har.common_statements[k]]
    IN  Join(<<Upper(har.category) \o " HAZARD ASSESSMENT", "", har.intro, "",
               "EXPLANATION AND RECOMMENDATION", "">>
             \o Spaced(points) \o Spaced(common) \o <<har.supersedes, "">>
             \o Spaced(har.additional_recommendations), "\n")

\* HAROutput.to_text
ToText(har) ==
    LET points == [k \in 1..Len(har.sections) |-> ToNumberedPoint(har.sections[k], k)]
        common == [k \in 1..Len(har.common_statements) |->
                      ToString(Len(har.sections) + k) \o ". " \o har.common_statements[k]]
    IN  Join(<<Upper(har.category) \o " HAZARD ASSESSMENT", "", har.intro, "",
               "EXPLANATION AND RECOMMENDATION", "">>
             \o Spaced(points) \o Spaced(common) \o <<har.supersedes, "">>
             \o Spaced(har.additional_recommendations), "\n")

\* HAROutput.to_dict
ToDict(har) ==
    [category |-> har.category,
     intro |-> har.intro,
     sections |-> [k \in 1..Len(har.sections) |->
                      [heading |-> har.sections[k].heading,
                       assessment |-> har.sections[k].assessment,
                       explanation_recommendation |-> har.sections[k].text]],
     common_statements |-> har.common_statements,
     supersedes |-> har.supersedes,
     additional_recommendations |-> har.additional_recommendations]



HazardStepsAlways(a, volcano_name, distance_km, is_distance_safe, sch) ==
    << ProcessPdz(a, volcano_name, sch),
       ProcessLahar(a, volcano_name, sch),
       ProcessPyroclasticFlow(a, sch),
       ProcessLavaFlow(a, sch),
       ProcessBallisticProjectiles(a, sch),
       IF Contains(Lower(volcano_name), "taal") THEN ProcessBaseSurge(a, sch) ELSE NoSection,
       ProcessVolcanicTsunami(a, sch),
       ProcessFissure(a, volcano_name, distance_km, sch) >>

\* steps 4-10 of process_volcano_assessment: what each hazard step returned, in
\* call order; none is called when the site is distance-safe
HazardSteps(a, volcano_name, distance_km, is_distance_safe, sch) ==
    IF ~is_distance_safe
    THEN << ProcessPdz(a, volcano_name, sch),
            ProcessLahar(a, volcano_name, sch),
            ProcessPyroclasticFlow(a, sch),
            ProcessLavaFlow(a, sch),
            ProcessBallisticProjectiles(a, sch),
            IF Contains(Lower(volcano_name), "taal") THEN ProcessBaseSurge(a, sch) ELSE NoSection,
            ProcessVolcanicTsunami(a, sch),
            ProcessFissure(a, volcano_name, distance_km, sch) >>
    ELSE <<>>

VolcanoReportReversed(a, steps, common) ==
    LET raisedSteps == SelectSeq(steps, LAMBDA r : r.kind = "raise")
        failed == SelectSeq(common, LAMBDA er : ~er.ok)
        sections == SelectSeq(steps, LAMBDA r : r.kind = "section")
    IN  IF Len(raisedSteps) > 0 THEN Failure(raisedSteps[1].error)
        ELSE IF Len(failed) > 0 THEN Failure(failed[1].error)
        ELSE Report("Volcano", IntroStatement(a),
                    [k \in 1..Len(sections) |-> sections[Len(sections) + 1 - k]],
                    [k \in 1..Len(common) |-> common[Len(common) + 1 - k].text])

\* lines 245-258: the HAROutput, unless a step or a statement raised
VolcanoReport(a, steps, common) ==
    LET raisedSteps == SelectSeq(steps, LAMBDA r : r.kind = "raise")
        failed == SelectSeq(common, LAMBDA er : ~er.ok)
    IN  IF Len(raisedSteps) > 0 THEN Failure(raisedSteps[1].error)
        ELSE IF Len(failed) > 0 THEN Failure(failed[1].error)
        ELSE Report("Volcano", IntroStatement(a),
                    SelectSeq(steps, LAMBDA r : r.kind = "section"),
                    [k \in 1..Len(common) |-> common[k].text])

AssessVolcanoPavInDetail(a, sch, volcano_name, distance_km) ==
    LET nearest == IF volcano_name # "Unknown"
                   THEN <<FromParts(volcano_name
                          \o " Volcano is the nearest identified active volcano to the site.",
                        None)>>
                   ELSE <<>>
        is_distance_safe == CheckDistanceBasedSafety(a, distance_km)
        safety == IF is_distance_safe THEN <<FromParts(SafetyText, None)>> ELSE <<>>
        pav == IF ~is_distance_safe
                  /\ Truthy(a.volcano.nearest_pav) /\ a.volcano.nearest_pav # NotAssessed
               THEN <<PavStatement(a.volcano.nearest_pav)>>
               ELSE <<>>
        ashfall == <<AshfallStatement(volcano_name, sch)>>
        avoidance == IF ~is_distance_safe /\ CheckNeedsAvoidance(a)
                     THEN <<AvoidanceRecommendation(sch)>>
                     ELSE <<>>
    IN  VolcanoReport(a, HazardSteps(a, volcano_name, distance_km, is_distance_safe, sch),
                      nearest \o safety \o pav \o ashfall \o avoidance)

\* steps 3-12 of process_volcano_assessment, given the parsed name and distance
AssessVolcano(a, sch, volcano_name, distance_km) ==
    LET nearest == IF volcano_name # "Unknown"
                   THEN <<FromParts(volcano_name
                          \o " Volcano is the nearest identified active volcano to the site.",
                        None)>>
                   ELSE <<>>
        is_distance_safe == CheckDistanceBasedSafety(a, distance_km)
        safety == IF is_distance_safe THEN <<FromParts(SafetyText, None)>> ELSE <<>>
        pav == IF Truthy(a.volcano.nearest_pav) /\ a.volcano.nearest_pav # NotAssessed
               THEN <<PavStatement(a.volcano.nearest_pav)>>
               ELSE <<>>
        ashfall == <<AshfallStatement(volcano_name, sch)>>
        avoidance == IF ~is_distance_safe /\ CheckNeedsAvoidance(a)
                     THEN <<AvoidanceRecommendation(sch)>>
                     ELSE <<>>
    IN  VolcanoReport(a, HazardSteps(a, volcano_name, distance_km, is_distance_safe, sch),
                      nearest \o safety \o pav \o ashfall \o avoidance)

\* process_volcano_assessment
ProcessVolcanoAssessment(a, sch) ==
    IF a.volcano.isNone THEN Failure("ValueError")
    ELSE LET info == ParseNearestVolcano(a)
         IN  IF info.raise # "" THEN Failure(info.raise)
             ELSE AssessVolcano(a, sch, info.name, info.distance)

IsAssessedNotNone(payload, hazard) == payload[hazard] # None

\* EarthquakeAssessment.is_assessed
IsAssessed(payload, hazard) == payload[hazard] # None /\ payload[hazard] # NotAssessed

\* self.schema.earthquake_rules[key] followed by the HARSection of the step
EarthquakeSection(sch, key, heading, st, withExplanation) ==
    IF key \notin DOMAIN sch.earthquake_rules THEN Raised("KeyError")
    ELSE LET rule == sch.earthquake_rules[key]
         IN  Section(heading, st,
                     FromParts(IF withExplanation THEN rule.explanation ELSE None,
                               rule.recommendation))

\* _process_active_fault
ProcessActiveFault(a, sch) ==
    EarthquakeSection(sch, "active_fault", "Ground Rupture", a.earthquake.active_fault, TRUE)

\* _process_liquefaction
ProcessLiquefaction(a, sch) ==
    EarthquakeSection(sch, "liquefaction", "Ground Shaking and Liquefaction",
                      "All sites may be affected by strong ground shaking. "
                        \o a.earthquake.liquefaction, FALSE)

\* _process_eil
ProcessEil(a, sch) ==
    EarthquakeSection(sch, "earthquake_induced_landslide", "Earthquake-Induced Landslide",
                      a.earthquake.landslide, TRUE)

\* _process_tsunami
ProcessTsunami(a, sch) ==
    EarthquakeSection(sch, "tsunami", "Tsunami", a.earthquake.tsunami, TRUE)

\* process_earthquake_assessment
ProcessEarthquakeAssessment(a, sch) ==
    LET Assemble(steps) ==
            IF \E k \in 1..Len(steps) : steps[k].kind = "raise"
            THEN Failure(SelectSeq(steps, LAMBDA r : r.kind = "raise")[1].error)
            ELSE Report("Earthquake", IntroStatement(a), steps, <<>>)
    IN  IF a.earthquake.isNone THEN Failure("ValueError")
        ELSE Assemble(
            (IF IsAssessed(a.earthquake, "active_fault") THEN <<ProcessActiveFault(a, sch)>> ELSE <<>>)
         \o (IF IsAssessed(a.earthquake, "liquefaction") THEN <<ProcessLiquefaction(a, sch)>> ELSE <<>>)
         \o (IF IsAssessed(a.earthquake, "landslide") THEN <<ProcessEil(a, sch)>> ELSE <<>>)
         \o (IF IsAssessed(a.earthquake, "tsunami") THEN <<ProcessTsunami(a, sch)>> ELSE <<>>))

\* process_assessment
ProcessAssessmentOf(a, sch) ==
    IF a.category = "Earthquake" THEN ProcessEarthquakeAssessment(a, sch)
    ELSE IF a.category = "Volcano" THEN ProcessVolcanoAssessment(a, sch)
    ELSE Failure("ValueError")

-----------------------------------------------------------------------------
(* ConditionMatcher (pipeline/condition_matcher.py) *)

\* the first condition, in dictionary order, whose template is the status
ExactMatch(st, conds) ==
    LET hits == {k \in 1..Len(conds) : conds[k].template = st}
    IN  IF hits = {} THEN None
        ELSE conds[CHOOSE k \in hits : \A j \in hits : k <= j].key

\* the same chain with the generic "prone" test ahead of the graded ones
FuzzyMatchProneFirst(st, conds) ==
    LET status_lower == Lower(st)
    IN  IF status_lower = "safe" THEN "safe"
        ELSE IF Contains(status_lower, "high potential") THEN "high_potential"
        ELSE IF Contains(status_lower, "moderate potential") THEN "moderate_potential"
        ELSE IF Contains(status_lower, "low potential") THEN "low_potential"
        ELSE IF Contains(status_lower, "highly susceptible") THEN "highly_susceptible"
        ELSE IF Contains(status_lower, "moderately susceptible") THEN "moderately_susceptible"
        ELSE IF Contains(status_lower, "least susceptible") THEN "least_susceptible"
        ELSE IF Contains(status_lower, "prone") THEN "prone"
        ELSE IF Contains(status_lower, "highly prone") THEN "highly_prone"
        ELSE IF Contains(status_lower, "moderately prone") THEN "moderately_prone"
        ELSE IF Contains(status_lower, "least prone") THEN "least_prone"
        ELSE IF Contains(status_lower, "buffer") \/ Contains(status_lower, "zone of avoidance")
             THEN "buffer_zone"
        ELSE IF Contains(status_lower, "transected") THEN "transected"
        ELSE IF Contains(status_lower, "within pdz")
                \/ Contains(status_lower, "permanent danger zone")
             THEN "within_pdz"
        ELSE IF Contains(status_lower, "zone") /\ ZoneNumber(status_lower) # ""
             THEN "zone_" \o ZoneNumber(status_lower)
        ELSE None

FuzzyMatch(st, conds) ==
    LET status_lower == Lower(st)
    IN  IF status_lower = "safe" THEN "safe"
        ELSE IF Contains(status_lower, "high potential") THEN "high_potential"
        ELSE IF Contains(status_lower, "moderate potential") THEN "moderate_potential"
        ELSE IF Contains(status_lower, "low potential") THEN "low_potential"
        ELSE IF Contains(status_lower, "highly susceptible") THEN "highly_susceptible"
        ELSE IF Contains(status_lower, "moderately susceptible") THEN "moderately_susceptible"
        ELSE IF Contains(status_lower, "least susceptible") THEN "least_susceptible"
        ELSE IF Contains(status_lower, "highly prone") THEN "highly_prone"
        ELSE IF Contains(status_lower, "moderately prone") THEN "moderately_prone"
        ELSE IF Contains(status_lower, "least prone") THEN "least_prone"
        ELSE IF Contains(status_lower, "prone") THEN "prone"
        ELSE IF Contains(status_lower, "buffer") \/ Contains(status_lower, "zone of avoidance")
             THEN "buffer_zone"
        ELSE IF Contains(status_lower, "transected") THEN "transected"
        ELSE IF Contains(status_lower, "within pdz")
                \/ Contains(status_lower, "permanent danger zone")
             THEN "within_pdz"
        ELSE IF Contains(status_lower, "zone") /\ ZoneNumber(status_lower) # ""
             THEN "zone_" \o ZoneNumber(status_lower)
        ELSE None

MatchStatus(st, conds) ==
    IF ~Truthy(st) \/ st = "--" THEN None
    ELSE IF ExactMatch(st, conds) # None THEN ExactMatch(st, conds)
    ELSE FuzzyMatch(st, conds)

MatchLiquefaction(st) ==
    LET status_lower == Lower(st)
    IN  IF Contains(status_lower, "high potential") THEN "high_potential"
        ELSE IF Contains(status_lower, "moderate potential") THEN "moderate_potential"
        ELSE IF Contains(status_lower, "low potential") THEN "low_potential"
        ELSE IF Contains(status_lower, "safe") THEN "safe"
        ELSE "safe"

\* the same matcher giving no key where the code falls back
MatchLandslideNoDefault(st) ==
    LET status_lower == Lower(st)
    IN  IF Contains(status_lower, "highly susceptible") THEN "highly_susceptible"
        ELSE IF Contains(status_lower, "moderately susceptible") THEN "moderately_susceptible"
        ELSE IF Contains(status_lower, "least susceptible") THEN "least_susceptible"
        ELSE IF Contains(status_lower, "safe") THEN "safe"
        ELSE IF Contains(status_lower, "susceptible") THEN "moderately_susceptible"
        ELSE None

MatchLandslide(st) ==
    LET status_lower == Lower(st)
    IN  IF Contains(status_lower, "highly susceptible") THEN "highly_susceptible"
        ELSE IF Contains(status_lower, "moderately susceptible") THEN "moderately_susceptible"
        ELSE IF Contains(status_lower, "least susceptible") THEN "least_susceptible"
        ELSE IF Contains(status_lower, "safe") THEN "safe"
        ELSE IF Contains(status_lower, "susceptible") THEN "moderately_susceptible"
        ELSE "safe"

MatchTsunami(st) ==
    LET status_lower == Lower(st)
    IN  IF Contains(status_lower, "prone") THEN "prone"
        ELSE IF Contains(status_lower, "safe") THEN "safe"
        ELSE "safe"

MatchLahar(st, volcano_name) ==
    LET status_lower == Lower(st)
        volcano_lower == Lower(volcano_name)
    IN  IF Contains(volcano_lower, "pinatubo")
        THEN IF Contains(status_lower, "zone") /\ ZoneNumber(status_lower) # ""
             THEN "zone_" \o ZoneNumber(status_lower)
             ELSE "safe"
        ELSE IF Contains(volcano_lower, "mayon")
        THEN IF Contains(status_lower, "highly prone") THEN "highly_prone"
             ELSE IF Contains(status_lower, "moderately prone") THEN "moderately_prone"
             ELSE IF Contains(status_lower, "least prone") THEN "least_prone"
             ELSE IF Contains(status_lower, "safe") THEN "safe"
             ELSE IF Contains(status_lower, "prone") THEN "moderately_prone"
             ELSE "safe"
        ELSE IF Contains(status_lower, "prone") THEN "prone"
        ELSE IF Contains(status_lower, "safe") THEN "safe"
        ELSE "safe"

\* a matcher returned a value, or raised because None has no lower()
Returned(fn, v) == [kind |-> "returned", by |-> fn, value |-> v]

MatcherRaised(fn, e) == [kind |-> "raise", by |-> fn, error |-> e]

-----------------------------------------------------------------------------
(* Inputs of the matchers *)

StatusPhrases ==
    {"", "Safe", "safe", "Unsafe", "Unknown",
     "High Potential", "Moderate Potential", "Low Potential",
     "Highly Susceptible", "Moderately Susceptible", "Least Susceptible", "Susceptible",
     "Highly Prone", "Moderately Prone", "Least Prone", "Prone",
     "Within buffer zone", "Zone of Avoidance", "Transected by an active fault",
     "Within PDZ", "Permanent Danger Zone", "Zone 3", "Zone  5", "Zone 7",
     "Within the tsunami inundation zone"}

MatcherStatuses ==
    {None, NotAssessed} \cup StatusPhrases
        \cup {a \o "; " \o b : a \in StatusPhrases \ {""}, b \in StatusPhrases \ {""}}

Condition(key, template) == [key |-> key, template |-> template]

\* condition dictionaries, in insertion order
ConditionMaps ==
    {<<>>,
     <<Condition("safe", "Safe"), Condition("high_potential", "High Potential")>>,
     <<Condition("prone", "Prone; Within the tsunami inundation zone"),
       Condition("safe", "Safe")>>}

MatcherVolcanoes == {"Pinatubo", "Mayon", "Taal"}

-----------------------------------------------------------------------------
(* Inputs of the decision engine *)

\* the narrative OHAS writes for the nearest active volcano
Narrative(dist, unit, dir, name) ==
    "Approximately " \o dist \o " " \o unit \o " " \o dir \o " of " \o name \o " Volcano"

\* narratives on both sides of the 50 km threshold and of the 6 km and 4 km zones
MatchingNarratives ==
    { Narrative(c[1], c[2], c[3], c[4]) : c \in
        { <<"5.5", "km", "north", "Mayon">>, <<"5.9", "km", "north", "Mayon">>,
          <<"6.0", "km", "north", "Mayon">>, <<"6", "kilometers", "east", "Mayon">>,
          <<"7.0", "km", "south", "Mayon">>,
          <<"3.9", "km", "west", "Kanlaon">>, <<"4.0", "km", "west", "Kanlaon">>,
          <<"4.1", "km", "west", "Kanlaon">>, <<"15.2", "kilometers", "southwest", "Kanlaon">>,
          <<"2.0", "km", "north", "Taal">>, <<"58.3", "km", "north", "Taal">>,
          <<"24", "kilometers", "north", "Bulusan">>,
          <<"49.9", "km", "east", "Biliran">>, <<"50.0", "km", "east", "Biliran">>,
          <<"50", "kilometers", "east", "Biliran">>, <<"50.1", "km", "east", "Biliran">>,
          <<"67.7", "kilometers", "east", "Biliran">>,
          <<"30.5", "km", "west", "Pinatubo">> } }

NoPayload == [isNone |-> TRUE]

VolcanoPayload(nav, pav, fissure, lahar, pf, bs, lava, bp, vt) ==
    [isNone |-> FALSE, nearest_active_volcano |-> nav, nearest_pav |-> pav,
     fissure |-> fissure, lahar |-> lahar, pyroclastic_flow |-> pf, base_surge |-> bs,
     lava_flow |-> lava, ballistic_projectile |-> bp, volcanic_tsunami |-> vt]

EarthquakePayload(af, liq, ls, tsu) ==
    [isNone |-> FALSE, active_fault |-> af, liquefaction |-> liq, landslide |-> ls,
     tsunami |-> tsu, fissure |-> NotAssessed]

MakeAssessment(id, category, eq, vol, map) ==
    [id |-> id, category |-> category, earthquake |-> eq, volcano |-> vol,
     vicinity_map_provided |-> map]

\* every narrative with every combination of the four statuses the branch tests read
ProximityInputs ==
    { MakeAssessment(1, "Volcano", NoPayload,
                     VolcanoPayload(nav, None, NotAssessed, lahar, pf, NotAssessed, lava, bp,
                                    NotAssessed), TRUE) :
        nav \in MatchingNarratives \cup {None, NotAssessed, "Near Taal Volcano"},
        lahar \in {None, "Safe", "Highly Prone", "Least Prone", "Zone 3"},
        pf \in {NotAssessed, "Safe", "Prone; Within buffer zone"},
        lava \in {NotAssessed, "Safe", "Prone"},
        bp \in {None, "Safe", "Within the danger zone"} }

\* the remaining fields, over a few narratives
OtherFieldInputs ==
    { MakeAssessment(2, "Volcano", NoPayload,
                     VolcanoPayload(nav, pav, fissure, main, main, bs, main, main, vt), FALSE) :
        nav \in { Narrative("2.0", "km", "north", "Taal"), Narrative("58.3", "km", "north", "Taal"),
                  Narrative("5.5", "km", "north", "Mayon"),
                  Narrative("67.7", "kilometers", "east", "Biliran"),
                  Narrative("24", "kilometers", "north", "Bulusan"), NotAssessed },
        pav \in {None, NotAssessed, "Approximately 85.4 km northeast of Cancajanag Volcano"},
        fissure \in {NotAssessed, "Safe"},
        bs \in {NotAssessed, "Prone"},
        vt \in {NotAssessed, "Prone"},
        main \in {NotAssessed, "Safe", "safe", "Highly prone"} }

EarthquakeInputs ==
    { MakeAssessment(3, "Earthquake", EarthquakePayload(af, liq, ls, tsu), NoPayload, map) :
        af \in {None, NotAssessed, "Safe; Approximately 7.1 km west of Valley Fault System"},
        liq \in {None, NotAssessed, "High Potential"},
        ls \in {NotAssessed, "Susceptible"},
        tsu \in {NotAssessed, "Prone; Within the tsunami inundation zone"},
        map \in BOOLEAN }

\* a category whose payload is missing, or that comes with the other payload
MismatchInputs ==
    { MakeAssessment(4, category, eq, vol, TRUE) :
        category \in {"Earthquake", "Volcano"},
        eq \in {NoPayload,
                EarthquakePayload(NotAssessed, "High Potential", NotAssessed, NotAssessed)},
        vol \in {NoPayload,
                 VolcanoPayload(Narrative("24", "kilometers", "north", "Bulusan"), None,
                                NotAssessed, "Highly Prone", NotAssessed, NotAssessed,
                                NotAssessed, NotAssessed, NotAssessed)} }

EngineInputs == ProximityInputs \cup OtherFieldInputs \cup EarthquakeInputs \cup MismatchInputs

-----------------------------------------------------------------------------
(* The state machine *)

NoAssessment == [isNone |-> TRUE]
NoResult == [kind |-> "none"]


\* a request reaches the engine, whose schema was loaded at start-up
InitEngine ==
    /\ component = "engine"
    /\ \/ schema = PdzTestSchema /\ assessment \in EarthquakeInputs \cup MismatchInputs
       \/ schema \in Schemas /\ assessment \in EngineInputs
    /\ pc = "ready"
    /\ report = NoResult
    /\ status = None /\ volcano = None /\ conditions = <<>> /\ matched = NoResult
    /\ text = None /\ parsed = NoResult /\ hars = NoResult
    /\ rendered = NoResult /\ data = NoResult /\ loaded = NoResult /\ calls = <<>>

\* engine.process_assessment(assessment)
ProcessAssessment ==
    /\ component = "engine"
    /\ pc = "ready"
    /\ report' = ProcessAssessmentOf(assessment, schema)
    /\ pc' = "done"
    /\ UNCHANGED <<data, loaded, component, schema, assessment, status, volcano, conditions, matched,
                   text, parsed, hars, rendered, calls>>

\* the caller renders the report it got: har.to_text() and har.to_dict()
Render ==
    /\ component = "engine"
    /\ pc = "done"
    /\ report.kind = "report"
    /\ rendered' = [kind |-> "rendered", text |-> ToText(report), dict |-> ToDict(report)]
    /\ pc' = "rendered"
    /\ UNCHANGED <<data, loaded, component, schema, assessment, report, status, volcano, conditions,
                   matched, text, parsed, hars, calls>>

NextEngine == ProcessAssessment \/ Render

EngineSpec == InitEngine /\ [][NextEngine]_vars

-----------------------------------------------------------------------------
(* Properties of the volcanic workflow *)

\* process_assessment has returned a Report for a volcanic assessment
VolcanoReportDone ==
    /\ component = "engine"
    /\ pc = "done"
    /\ assessment.category = "Volcano"
    /\ report.kind = "report"

\* the distance the micro-grammar read from the narrative, in tenths of km
ParsedDistance == ParseNearestVolcano(assessment).distance

\* the name the micro-grammar read from the narrative
ParsedName == ParseNearestVolcano(assessment).name

\* how many common statements of the report carry the given text
CountCommon(t) ==
    Cardinality({k \in 1..Len(report.common_statements) : report.common_statements[k] = t})

HasSafetyStatement == CountCommon(SafetyText) > 0

HasAvoidance == CountCommon(AvoidanceRecommendation(schema).text) > 0

\* the status is present and contains "Safe"
SaysSafe(st) == Truthy(st) /\ Contains(st, "Safe")

AllProximitySafe ==
    /\ SaysSafe(assessment.volcano.pyroclastic_flow)
    /\ SaysSafe(assessment.volcano.lava_flow)
    /\ SaysSafe(assessment.volcano.ballistic_projectile)

\* C1: a volcanic site is distance-safe when its parsed distance exceeds 50.0 km
\* or when pyroclastic flow, lava flow and ballistic projectiles are all Safe:
\* its report then carries the proximity-safety statement and no hazard Section.
C1_SafeByDistanceOrStatus ==
    (VolcanoReportDone /\ (ParsedDistance > DistanceSafeThreshold \/ AllProximitySafe))
        => (CountCommon(SafetyText) = 1 /\ report.sections = <<>>)

\* C2: with proximity hazards not all Safe, exactly 50.0 km takes the detailed
\* branch (no proximity-safety statement) and every distance above 50.0 km takes
\* the safety-only branch (the statement, and no hazard Section).
C2_StrictThreshold ==
    (VolcanoReportDone /\ ~AllProximitySafe)
        => /\ (ParsedDistance = DistanceSafeThreshold => ~HasSafetyStatement)
           /\ (ParsedDistance > DistanceSafeThreshold
                 => (HasSafetyStatement /\ report.sections = <<>>))

\* a site at exactly 50.0 km, not all Safe, reported without the safety statement
C2_Witness ==
    /\ VolcanoReportDone
    /\ ~AllProximitySafe
    /\ ParsedDistance = DistanceSafeThreshold
    /\ assessment.volcano.lava_flow = "Prone"
    /\ ~HasSafetyStatement
    /\ Len(report.sections) > 0

PdzRadiusResolved ==
    /\ VolcanoReportDone
    /\ ~CheckDistanceBasedSafety(assessment, ParsedDistance)
    /\ ~Get(schema.volcano_rules, "pdz_danger_zone").isNone
    /\ ~PdzRadius(Get(schema.volcano_rules, "pdz_danger_zone"), ParsedName).isNone

ResolvedRadius == PdzRadius(Get(schema.volcano_rules, "pdz_danger_zone"), ParsedName).value

HasPdzSection == \E k \in 1..Len(report.sections) : report.sections[k].heading = "PDZ (Permanent Danger Zone)"

SchemaKnowsRadius ==
    LET rule == Get(schema.volcano_rules, "pdz_danger_zone")
    IN  /\ ~rule.isNone
        /\ ~rule.special_cases.isNone
        /\ PdzLookup(rule.special_cases.entries, Lower(ParsedName)).found

\* C5: in the detailed branch the danger-zone step returns a PDZ Section for
\* every volcano that has a known radius (Mayon 6 km; Taal, Kanlaon 4 km) and
\* none only for volcanoes without one.
C5_PdzForEveryKnownRadius ==
    (VolcanoReportDone /\ ~CheckDistanceBasedSafety(assessment, ParsedDistance))
        => (HasPdzSection <=> SchemaKnowsRadius)

-----------------------------------------------------------------------------
(* Properties of process_assessment and of the seismic workflow *)

\* process_assessment has returned or raised
EngineDone == component = "engine" /\ pc = "done"

\* the payload of the assessment's category is populated and the other one is not
PayloadAgrees ==
    IF assessment.category = "Earthquake"
    THEN ~assessment.earthquake.isNone /\ assessment.volcano.isNone
    ELSE ~assessment.volcano.isNone /\ assessment.earthquake.isNone

\* C11: the Report process_assessment returns is the one of the workflow of the
\* assessment's category, and every Assessment whose populated payload does not
\* agree with its category (the category's payload absent, or the other
\* category's payload populated) is rejected with the domain error (ValueError).
C11_CategoryPayloadAgreement ==
    EngineDone
        => /\ (report.kind = "report" => report.category = assessment.category)
           /\ (~PayloadAgrees => (report.kind = "error" /\ report.error = "ValueError"))

\* process_assessment has returned a Report for a seismic assessment
SeismicReportDone ==
    /\ EngineDone
    /\ assessment.category = "Earthquake"
    /\ report.kind = "report"

\* the headings of the report's Sections, in list order
Headings == [k \in 1..Len(report.sections) |-> report.sections[k].heading]

\* the seismic fields and their headings, in the order the claim fixes
SeismicOrder ==
    << <<"active_fault", "Ground Rupture">>,
       <<"liquefaction", "Ground Shaking and Liquefaction">>,
       <<"landslide", "Earthquake-Induced Landslide">>,
       <<"tsunami", "Tsunami">> >>

\* the value is present and is not the not-assessed sentinel
Assessed(v) == v # None /\ v # NotAssessed

\* the headings of the assessed seismic fields, in the fixed order
ExpectedSeismicHeadings ==
    LET chosen == SelectSeq(SeismicOrder, LAMBDA p : Assessed(assessment.earthquake[p[1]]))
    IN  [k \in 1..Len(chosen) |-> chosen[k][2]]

C13_GroundShakingAlways ==
    SeismicReportDone
        => \/ \E k \in 1..Len(Headings) : Headings[k] = "Ground Shaking and Liquefaction"
           \/ \E k \in 1..Len(report.common_statements) :
                 Contains(Lower(report.common_statements[k]), "ground shaking")

-----------------------------------------------------------------------------
(* Properties of the volcanic common statements *)

\* s ends with p
EndsWith(s, p) == Len(s) >= Len(p) /\ SubSeq(s, Len(s) - Len(p) + 1, Len(s)) = p

\* the kinds of common statement, recognised by their fixed wording
IsNearestStatement(t) ==
    EndsWith(t, " Volcano is the nearest identified active volcano to the site.")

IsPavStatement(t) ==
    Contains(t, " Volcano is currently classified by DOST-PHIVOLCS as a potentially active volcano")

IsAshfallStatement(t) == Contains(Lower(t), "ashfall")

\* how many common statements of the report are of the given kind
CountKind(IsKind(_)) ==
    Cardinality({k \in 1..Len(report.common_statements) : IsKind(report.common_statements[k])})

\* the nearest-active-volcano narrative matches the micro-grammar
NarrativeMatched == MatchNearestVolcano(assessment.volcano.nearest_active_volcano).matched

\* C14: the "nearest identified active volcano" statement is in the Report if and
\* only if the narrative matched the micro-grammar (a volcano name was resolved);
\* a narrative that does not match leaves no such statement.
C14_NearestOnlyWhenResolved ==
    VolcanoReportDone
        => /\ CountKind(IsNearestStatement) <= 1
           /\ (CountKind(IsNearestStatement) = 1 <=> NarrativeMatched)

\* the nearest-PAV field is present: not absent, not empty, not "--"
PavPresent == assessment.volcano.nearest_pav \notin {None, "", NotAssessed}

VolcanoWorkflowRan ==
    /\ EngineDone
    /\ assessment.category = "Volcano"
    /\ ~assessment.volcano.isNone
    /\ ParseNearestVolcano(assessment).raise = ""

\* C16: every volcanic Report holds exactly one ashfall statement, from the
\* schema's template or, when the schema has none (also when its 'common' rule
\* carries no ashfall template), from the hardcoded fallback; the lack of a
\* template never makes report generation fail.
C16_AshfallAlways ==
    VolcanoWorkflowRan
        => /\ report.kind = "report"
           /\ CountKind(IsAshfallStatement) = 1

\* the status contains "prone" or "susceptible" and neither "safe" nor "least prone"
ProneStatus(st) ==
    /\ Truthy(st)
    /\ (Contains(Lower(st), "prone") \/ Contains(Lower(st), "susceptible"))
    /\ ~Contains(Lower(st), "safe")
    /\ ~Contains(Lower(st), "least prone")

\* the statuses of the proximity hazards the avoidance check reads
ProximityStatuses ==
    {assessment.volcano.lahar, assessment.volcano.pyroclastic_flow,
     assessment.volcano.lava_flow, assessment.volcano.ballistic_projectile}

\* C17: the avoidance recommendation is in the Report if and only if the site is
\* not distance-safe and some proximity hazard status contains "prone" or
\* "susceptible" while containing neither "safe" nor "least prone"; Safe or
\* Least Prone statuses alone never bring it, a prone lahar status does.
C17_AvoidanceOnlyWhenProne ==
    VolcanoReportDone
        => (HasAvoidance
              <=> /\ ~CheckDistanceBasedSafety(assessment, ParsedDistance)
                  /\ \E st \in ProximityStatuses : ProneStatus(st))

-----------------------------------------------------------------------------
(* Properties of the volcanic hazard Sections *)

\* a Report of the detailed (not distance-safe) branch
DetailedReportDone ==
    /\ VolcanoReportDone
    /\ ~CheckDistanceBasedSafety(assessment, ParsedDistance)

\* the Sections of the report under the given heading
SectionsHeaded(h) == SelectSeq(report.sections, LAMBDA x : x.heading = h)

\* the hazards with a direct schema-rule step: payload field, rule key, heading
DirectSteps ==
    { <<"lahar", "lahar", "Lahar">>,
      <<"pyroclastic_flow", "pyroclastic_density_current", "Pyroclastic Density Current">>,
      <<"lava_flow", "lava_flow", "Lava Flow">>,
      <<"ballistic_projectile", "ballistic_projectiles", "Ballistic Projectiles">>,
      <<"volcanic_tsunami", "volcanic_tsunami", "Volcanic Tsunami">> }

\* what the claim asks of one hazard: its status, its rule, its Sections
DirectStepHolds(field, st, rule, found) ==
    /\ (~Truthy(st) \/ st = NotAssessed \/ Contains(st, "Safe")) => found = <<>>
    /\ (Truthy(st) /\ st # NotAssessed /\ ~Contains(Lower(st), "safe") /\ ~rule.isNone)
         => /\ Len(found) = 1
            /\ found[1].assessment = st
            /\ EndsWith(found[1].text, " " \o rule.recommendation)
            /\ (field # "lahar" \/ ParsedName \notin {"Pinatubo", "Mayon"})
                 => found[1].text = rule.explanation \o " " \o rule.recommendation

FissureApplies ==
    /\ DetailedReportDone
    /\ ParsedDistance <= DistanceSafeThreshold
    /\ Assessed(assessment.volcano.fissure)
    /\ ~Get(schema.volcano_rules, "fissure").isNone
    /\ Truthy(Get(schema.volcano_rules, "fissure").explanation)

\* C19: in the detailed branch, at 50 km or less, an assessed fissure status and a
\* fissure rule with an explanation yield one "Fissure" Section that combines the
\* rule's explanation and recommendation, followed by Taal's
\* reporting-instructions text when the resolved volcano is Taal.
C19_FissureSection ==
    FissureApplies
        => /\ Len(SectionsHeaded("Fissure")) = 1
           /\ SectionsHeaded("Fissure")[1].assessment = assessment.volcano.fissure
           /\ SectionsHeaded("Fissure")[1].text
                = Get(schema.volcano_rules, "fissure").explanation \o " "
                    \o Get(schema.volcano_rules, "fissure").recommendation
                    \o (IF Contains(Lower(ParsedName), "taal")
                        THEN " " \o Get(schema.volcano_rules, "fissure").special_cases.taal.reporting
                        ELSE "")

\* the headings of the volcanic Sections, in the order the claim fixes
SectionOrder ==
    <<"PDZ (Permanent Danger Zone)", "Lahar", "Pyroclastic Density Current", "Lava Flow",
      "Ballistic Projectiles", "Base Surge", "Volcanic Tsunami", "Fissure">>

\* the place of a heading in SectionOrder, 0 for a heading that is not in it
SectionRank(h) ==
    IF \E k \in 1..Len(SectionOrder) : SectionOrder[k] = h
    THEN CHOOSE k \in 1..Len(SectionOrder) : SectionOrder[k] = h
    ELSE 0

\* the place of a common statement in the order nearest-volcano, proximity-safety,
\* potentially-active-volcano, ashfall, avoidance; 0 for any other text
CommonRank(t) ==
    IF IsNearestStatement(t) THEN 1
    ELSE IF t = SafetyText THEN 2
    ELSE IF IsPavStatement(t) THEN 3
    ELSE IF IsAshfallStatement(t) THEN 4
    ELSE IF t = AvoidanceRecommendation(schema).text THEN 5
    ELSE 0

\* every rank is known and the ranks strictly increase along the sequence
InFixedOrder(ranks) ==
    /\ \A k \in 1..Len(ranks) : ranks[k] > 0
    /\ \A j, k \in 1..Len(ranks) : j < k => ranks[j] < ranks[k]

\* C20: in every volcanic Report the Sections are a subsequence of PDZ, Lahar,
\* Pyroclastic Density Current, Lava Flow, Ballistic Projectiles, Base Surge,
\* Volcanic Tsunami, Fissure, each heading at most once, with Base Surge only
\* for Taal; and the common statements are a subsequence of nearest-volcano,
\* proximity-safety, potentially-active-volcano, ashfall, avoidance, each at
\* most once.
C20_FixedOrder ==
    VolcanoReportDone
        => /\ InFixedOrder([k \in 1..Len(Headings) |-> SectionRank(Headings[k])])
           /\ (SectionsHeaded("Base Surge") # <<>> => Contains(Lower(ParsedName), "taal"))
           /\ InFixedOrder([k \in 1..Len(report.common_statements) |->
                               CommonRank(report.common_statements[k])])

\* Mayon at 5.5 km with every proximity hazard prone: five Sections and the
\* nearest-volcano, ashfall and avoidance statements, in the fixed order
C20_Witness ==
    /\ VolcanoReportDone
    /\ ParsedName = "Mayon"
    /\ ParsedDistance = 55
    /\ Headings = <<"PDZ (Permanent Danger Zone)", "Lahar", "Pyroclastic Density Current",
                    "Lava Flow", "Ballistic Projectiles">>
    /\ [k \in 1..Len(report.common_statements) |-> CommonRank(report.common_statements[k])]
         = <<1, 4, 5>>

\* the prone level a lahar status names, in any letter case; "" for none
NamedLevel(st) ==
    IF Contains(Lower(st), "highly prone") THEN "highly_prone"
    ELSE IF Contains(Lower(st), "moderately prone") THEN "moderately_prone"
    ELSE IF Contains(Lower(st), "least prone") THEN "least_prone"
    ELSE ""

\* the explanation the claim selects for the Lahar Section of the report
ClaimedLaharExplanation(rule, st, name) ==
    IF /\ Contains(name, "pinatubo")
       /\ ZoneNumber(st) # ""
       /\ ~rule.special_cases.isNone
       /\ "pinatubo" \in DOMAIN rule.special_cases
       /\ ("zone_" \o ZoneNumber(st)) \in DOMAIN rule.special_cases.pinatubo.zones
    THEN rule.special_cases.pinatubo.intro \o " "
            \o rule.special_cases.pinatubo.zones["zone_" \o ZoneNumber(st)].explanation
    ELSE IF /\ Contains(name, "mayon")
            /\ NamedLevel(st) # ""
            /\ ~rule.special_cases.isNone
            /\ "mayon" \in DOMAIN rule.special_cases
            /\ NamedLevel(st) \in DOMAIN rule.special_cases.mayon.zones
    THEN rule.special_cases.mayon.intro \o " "
            \o rule.special_cases.mayon.zones[NamedLevel(st)].explanation
    ELSE rule.explanation

\* C21: the Lahar Section's explanation follows the volcano: for Pinatubo with a
\* status naming Zone 1 to 5 that zone's explanation, for Mayon with a status
\* naming highly, moderately or least prone that level's explanation, and the
\* rule's base explanation otherwise; the recommendation is the rule's own.
C21_LaharExplanationByVolcano ==
    (DetailedReportDone /\ SectionsHeaded("Lahar") # <<>>)
        => SectionsHeaded("Lahar")[1].text
             = ClaimedLaharExplanation(Get(schema.volcano_rules, "lahar"),
                                       assessment.volcano.lahar, Lower(ParsedName))
                 \o " " \o Get(schema.volcano_rules, "lahar").recommendation

-----------------------------------------------------------------------------
(* Properties of the schema lookups of the hazard steps *)

\* the rule key each seismic field's step looks up
SeismicRuleKey ==
    [active_fault |-> "active_fault", liquefaction |-> "liquefaction",
     landslide |-> "earthquake_induced_landslide", tsunami |-> "tsunami"]

\* the headings of the assessed seismic fields whose rule the schema holds
HeadingsWithRule ==
    LET chosen == SelectSeq(SeismicOrder,
                            LAMBDA p : /\ Assessed(assessment.earthquake[p[1]])
                                       /\ SeismicRuleKey[p[1]] \in DOMAIN schema.earthquake_rules)
    IN  [k \in 1..Len(chosen) |-> chosen[k][2]]

\* the hazard steps of the volcanic workflow, as the call ran them
StepsRun ==
    HazardSteps(assessment, ParsedName, ParsedDistance,
                CheckDistanceBasedSafety(assessment, ParsedDistance), schema)

\* C24: a hazard step whose rule is missing from the schema only leaves its
\* Section out: a populated seismic Assessment gets a Report with the Sections
\* of the assessed hazards that have a rule, and no volcanic hazard step raises.
C24_StepFailureOmitsSection ==
    /\ (EngineDone /\ assessment.category = "Earthquake" /\ ~assessment.earthquake.isNone)
          => report.kind = "report" /\ Headings = HeadingsWithRule
    /\ VolcanoWorkflowRan
          => SelectSeq(StepsRun, LAMBDA step : step.kind = "raise") = <<>>

-----------------------------------------------------------------------------
(* Properties of the skip-if-safe test *)

\* the six hazard steps with a skip-if-safe test: payload field and heading
SkippingSteps ==
    {<<step[1], step[3]>> : step \in DirectSteps} \cup {<<"base_surge", "Base Surge">>}

\* C30: no volcanic Report holds a Lahar, Pyroclastic Density Current, Lava
\* Flow, Ballistic Projectiles, Base Surge or Volcanic Tsunami Section for a
\* status that contains "safe" in any letter case.
C30_SafeSkippedUniformly ==
    VolcanoReportDone
        => \A step \in SkippingSteps :
              (/\ assessment.volcano[step[1]] # None
               /\ Contains(Lower(assessment.volcano[step[1]]), "safe"))
                 => SectionsHeaded(step[2]) = <<>>

-----------------------------------------------------------------------------
(* Properties of the narrative fallback *)

\* the narrative of the nearest active volcano is absent or does not match
NarrativeUnreadable ==
    \/ assessment.volcano.nearest_active_volcano = None
    \/ ~MatchNearestVolcano(assessment.volcano.nearest_active_volcano).matched

\* C27: a volcanic Assessment with a populated payload whose nearest-volcano
\* narrative is absent or does not match the micro-grammar still gets a Report,
\* and the Report is the one of the detailed branch: it carries no
\* proximity-safety statement.  Checked on the schemas whose ashfall statement
\* can be built.
C27_NarrativeFallback ==
    (/\ EngineDone
     /\ assessment.category = "Volcano"
     /\ ~assessment.volcano.isNone
     /\ NarrativeUnreadable
     /\ schema # NoAshfallSchema)
        => report.kind = "report" /\ ~HasSafetyStatement

-----------------------------------------------------------------------------
(* Properties of the rendered report *)

ReportRendered == component = "engine" /\ pc = "rendered"

\* the offsets at which the lines of a text that open with a digit start
NumberedLineStarts(txt) ==
    {i \in 1..Len(txt) : IsDigit(CharAt(txt, i)) /\ (i = 1 \/ CharAt(txt, i - 1) = "\n")}

\* the k-th smallest member of a set of offsets
NthOffset(offsets, k) ==
    CHOOSE i \in offsets : Cardinality({j \in offsets : j < i}) = k - 1

\* the line of the text that starts at offset i
LineAt(txt, i) ==
    LET nl == FindFrom(txt, "\n", i)
    IN  IF nl = 0 THEN From(txt, i) ELSE SubSeq(txt, i, nl - 1)

\* the lines of the text that are not empty, from offset i on
NonEmptyLinesFrom(txt, i) == SelectSeq(Split(From(txt, i), "\n"), LAMBDA line : line # "")

\* what the claim expects the numbered lines of a rendered Report to be
ExpectedNumberedLines(har) ==
    [k \in 1..(Len(har.sections) + Len(har.common_statements)) |->
        IF k <= Len(har.sections)
        THEN ToString(k) \o ". " \o har.sections[k].heading \o ": "
                 \o har.sections[k].assessment \o ". " \o har.sections[k].text
        ELSE ToString(k) \o ". " \o har.common_statements[k - Len(har.sections)]]

NumberedAsExpected(txt, starts, expected, closing) ==
    /\ Cardinality(starts) = Len(expected)
    /\ \A k \in 1..Len(expected) : LineAt(txt, NthOffset(starts, k)) = expected[k]
    /\ Len(expected) > 0
         => NonEmptyLinesFrom(txt, NthOffset(starts, Len(expected)) + Len(expected[Len(expected)]))
              = closing

DictAsReport(dict, har) ==
    /\ Len(dict.sections) = Len(har.sections)
    /\ \A k \in 1..Len(har.sections) :
          /\ dict.sections[k].heading = har.sections[k].heading
          /\ dict.sections[k].assessment = har.sections[k].assessment
          /\ dict.sections[k].explanation_recommendation = har.sections[k].text
    /\ dict.common_statements = har.common_statements

\* C22: the rendered text numbers the n Sections 1..n and the m common
\* statements n+1..n+m in list order, each Section as "<k>. <Heading>: <status>.
\* <text>" and each common statement as "<k>. <statement>", with no other
\* numbered line; the supersedes statement and then the additional
\* recommendations follow the last of them; the dict lists the same Sections
\* and common statements in the same order.
C22_RenderedNumbering ==
    ReportRendered
        => /\ NumberedAsExpected(rendered.text, NumberedLineStarts(rendered.text),
                                 ExpectedNumberedLines(report),
                                 <<report.supersedes>> \o report.additional_recommendations)
           /\ DictAsReport(rendered.dict, report)

\* a rendered report with several Sections and several common statements
C22_Witness ==
    /\ ReportRendered
    /\ Len(report.sections) >= 2
    /\ Len(report.common_statements) >= 2
    /\ Len(rendered.dict.sections) >= 2

-----------------------------------------------------------------------------
(* The matchers, called on their own *)

InitMatcher ==
    /\ component = "matcher"
    /\ status \in MatcherStatuses
    /\ volcano = None
    /\ conditions = <<>>
    /\ matched = NoResult
    /\ pc = "ready"
    /\ assessment = NoAssessment /\ report = NoResult /\ schema = FullSchema
    /\ text = None /\ parsed = NoResult /\ hars = NoResult
    /\ rendered = NoResult /\ data = NoResult /\ loaded = NoResult /\ calls = <<>>

\* ConditionMatcher.match_status(status, conditions)
CallMatchStatus ==
    /\ component = "matcher"
    /\ pc = "ready"
    /\ \E conds \in ConditionMaps :
          /\ conditions' = conds
          /\ matched' = Returned("match_status", MatchStatus(status, conds))
    /\ pc' = "done"
    /\ UNCHANGED <<data, loaded, component, schema, assessment, report, status, volcano, text, parsed, hars, rendered, calls>>

\* ConditionMatcher.match_liquefaction(status)
CallMatchLiquefaction ==
    /\ component = "matcher"
    /\ pc = "ready"
    /\ matched' = IF status = None THEN MatcherRaised("match_liquefaction", "AttributeError")
                  ELSE Returned("match_liquefaction", MatchLiquefaction(status))
    /\ pc' = "done"
    /\ UNCHANGED <<data, loaded, component, schema, assessment, report, status, volcano, conditions,
                   text, parsed, hars, rendered, calls>>

\* ConditionMatcher.match_landslide(status)
CallMatchLandslide ==
    /\ component = "matcher"
    /\ pc = "ready"
    /\ matched' = IF status = None THEN MatcherRaised("match_landslide", "AttributeError")
                  ELSE Returned("match_landslide", MatchLandslide(status))
    /\ pc' = "done"
    /\ UNCHANGED <<data, loaded, component, schema, assessment, report, status, volcano, conditions,
                   text, parsed, hars, rendered, calls>>

\* ConditionMatcher.match_tsunami(status)
CallMatchTsunami ==
    /\ component = "matcher"
    /\ pc = "ready"
    /\ matched' = IF status = None THEN MatcherRaised("match_tsunami", "AttributeError")
                  ELSE Returned("match_tsunami", MatchTsunami(status))
    /\ pc' = "done"
    /\ UNCHANGED <<data, loaded, component, schema, assessment, report, status, volcano, conditions,
                   text, parsed, hars, rendered, calls>>

\* ConditionMatcher.match_lahar(status, volcano_name)
CallMatchLahar ==
    /\ component = "matcher"
    /\ pc = "ready"
    /\ \E name \in MatcherVolcanoes :
          /\ volcano' = name
          /\ matched' = IF status = None THEN MatcherRaised("match_lahar", "AttributeError")
                        ELSE Returned("match_lahar", MatchLahar(status, name))
    /\ pc' = "done"
    /\ UNCHANGED <<data, loaded, component, schema, assessment, report, status, conditions,
                   text, parsed, hars, rendered, calls>>

NextMatcher ==
    \/ CallMatchStatus
    \/ CallMatchLiquefaction
    \/ CallMatchLandslide
    \/ CallMatchTsunami
    \/ CallMatchLahar

MatcherSpec == InitMatcher /\ [][NextMatcher]_vars

-----------------------------------------------------------------------------
(* Properties of the matchers *)

\* the predicate order of the fuzzy stage, by the key each predicate yields
FuzzyOrder ==
    <<"safe", "high_potential", "moderate_potential", "low_potential",
      "highly_susceptible", "moderately_susceptible", "least_susceptible",
      "highly_prone", "moderately_prone", "least_prone", "prone",
      "buffer_zone", "transected", "within_pdz", "zone">>

\* whether the lower-cased status satisfies the k-th predicate of the order
Satisfies(k, sl) ==
    CASE FuzzyOrder[k] = "safe" -> sl = "safe"
      [] FuzzyOrder[k] = "high_potential" -> Contains(sl, "high potential")
      [] FuzzyOrder[k] = "moderate_potential" -> Contains(sl, "moderate potential")
      [] FuzzyOrder[k] = "low_potential" -> Contains(sl, "low potential")
      [] FuzzyOrder[k] = "highly_susceptible" -> Contains(sl, "highly susceptible")
      [] FuzzyOrder[k] = "moderately_susceptible" -> Contains(sl, "moderately susceptible")
      [] FuzzyOrder[k] = "least_susceptible" -> Contains(sl, "least susceptible")
      [] FuzzyOrder[k] = "highly_prone" -> Contains(sl, "highly prone")
      [] FuzzyOrder[k] = "moderately_prone" -> Contains(sl, "moderately prone")
      [] FuzzyOrder[k] = "least_prone" -> Contains(sl, "least prone")
      [] FuzzyOrder[k] = "prone" -> Contains(sl, "prone")
      [] FuzzyOrder[k] = "buffer_zone" ->
            Contains(sl, "buffer") \/ Contains(sl, "zone of avoidance")
      [] FuzzyOrder[k] = "transected" -> Contains(sl, "transected")
      [] FuzzyOrder[k] = "within_pdz" ->
            Contains(sl, "within pdz") \/ Contains(sl, "permanent danger zone")
      [] FuzzyOrder[k] = "zone" -> ZoneNumber(sl) # ""

\* the key of the earliest predicate the status satisfies, None when there is none
EarliestKey(st) ==
    LET sl == Lower(st)
        sat == {k \in 1..Len(FuzzyOrder) : Satisfies(k, sl)}
        first == CHOOSE k \in sat : \A j \in sat : k <= j
    IN  IF sat = {} THEN None
        ELSE IF FuzzyOrder[first] = "zone" THEN "zone_" \o ZoneNumber(sl)
        ELSE FuzzyOrder[first]

MatchStatusDone ==
    component = "matcher" /\ pc = "done" /\ matched.by = "match_status"

\* match_status went past the empty check and the exact-template loop
FuzzyStageReached ==
    /\ MatchStatusDone
    /\ Truthy(status)
    /\ status # "--"
    /\ ExactMatch(status, conditions) = None

\* C6: the fuzzy stage of match_status returns the key of the earliest predicate,
\* in the fixed order, that the status satisfies (none when it satisfies none);
\* a status containing "highly prone" never resolves to the generic prone key
\* and "Highly Prone" resolves to highly_prone.
C6_FirstMatchWins ==
    /\ FuzzyStageReached => matched.value = EarliestKey(status)
    /\ (MatchStatusDone /\ Truthy(status) /\ Contains(Lower(status), "highly prone"))
         => matched.value # "prone"
    /\ (MatchStatusDone /\ status = "Highly Prone") => matched.value = "highly_prone"

\* "Highly Prone" put through the fuzzy stage, where the generic rule also applies
C6_Witness ==
    /\ FuzzyStageReached
    /\ status = "Highly Prone"
    /\ Satisfies(8, Lower(status))
    /\ Satisfies(11, Lower(status))
    /\ matched.value = "highly_prone"

\* the keys of the conditions map match_status was given
GivenKeys == {conditions[k].key : k \in 1..Len(conditions)}

\* the entries of the conditions map whose template is the status
TemplateHits == {k \in 1..Len(conditions) : conditions[k].template = status}

\* C29: match_status returns none for an absent, empty or "--" status, the key
\* of the first condition whose template is the status when there is one, and
\* in every case either none or a key of the conditions map it was given.
C29_KeyOfGivenMap ==
    MatchStatusDone
        => /\ (~Truthy(status) \/ status = NotAssessed) => matched.value = None
           /\ (Truthy(status) /\ status # NotAssessed /\ TemplateHits # {})
                => matched.value
                     = conditions[CHOOSE k \in TemplateHits : \A j \in TemplateHits : k <= j].key
           /\ matched.value = None \/ matched.value \in GivenKeys

EntityMatcherDone ==
    /\ component = "matcher"
    /\ pc = "done"
    /\ matched.by \in {"match_liquefaction", "match_landslide", "match_tsunami", "match_lahar"}

\* the condition keys each entity-specific matcher can answer with
EntityKeys(fn) ==
    CASE fn = "match_liquefaction" ->
            {"high_potential", "moderate_potential", "low_potential", "safe"}
      [] fn = "match_landslide" ->
            {"highly_susceptible", "moderately_susceptible", "least_susceptible", "safe"}
      [] fn = "match_tsunami" -> {"prone", "safe"}
      [] fn = "match_lahar" ->
            {"zone_1", "zone_2", "zone_3", "zone_4", "zone_5",
             "highly_prone", "moderately_prone", "least_prone", "prone", "safe"}

\* whether the status holds a keyword the matcher looks for
HasKeyword(fn, st, volcano_name) ==
    LET sl == Lower(st)
    IN  CASE fn = "match_liquefaction" ->
                \/ Contains(sl, "high potential")
                \/ Contains(sl, "moderate potential")
                \/ Contains(sl, "low potential")
                \/ Contains(sl, "safe")
          [] fn = "match_landslide" -> Contains(sl, "susceptible") \/ Contains(sl, "safe")
          [] fn = "match_tsunami" -> Contains(sl, "prone") \/ Contains(sl, "safe")
          [] fn = "match_lahar" ->
                IF Contains(Lower(volcano_name), "pinatubo") THEN ZoneNumber(sl) # ""
                ELSE Contains(sl, "prone") \/ Contains(sl, "safe")

\* C7: for every status string the entity-specific matchers return a condition
\* key, never none, and the key is "safe" when the status holds no keyword
\* the matcher recognizes.
C7_EntityMatchersTotal ==
    (EntityMatcherDone /\ status # None)
        => /\ matched.kind = "returned"
           /\ matched.value \in EntityKeys(matched.by)
           /\ (~HasKeyword(matched.by, status, volcano) => matched.value = "safe")

\* a landslide status without any keyword, answered with the safe key
C7_Witness ==
    /\ EntityMatcherDone
    /\ matched.by = "match_landslide"
    /\ status = "Unknown"
    /\ ~HasKeyword("match_landslide", status, volcano)
    /\ matched = Returned("match_landslide", "safe")

-----------------------------------------------------------------------------
(* TableParser (parser/table_parser.py): rows *)

Mapping(canonical, variations) == [canonical |-> canonical, variations |-> variations]

FieldMappings ==
    <<Mapping("assessment", <<"assessment", "assessment no", "id", "assessment_id">>),
      Mapping("category", <<"category">>),
      Mapping("feature_type", <<"feature type", "feature_type", "type">>),
      Mapping("location", <<"location", "coordinates", "coordinate">>),
      Mapping("active_fault", <<"active fault", "active_fault", "ground rupture">>),
      Mapping("liquefaction", <<"liquefaction", "liq">>),
      Mapping("landslide", <<"landslide", "earthquake-induced landslide", "eil">>),
      Mapping("tsunami", <<"tsunami", "tsu">>),
      Mapping("fissure", <<"fissure">>),
      Mapping("nearest_active_volcano",
              <<"nearest active volcano", "nearest_active_volcano", "nearest volcano",
                "active volcano">>),
      Mapping("nearest_pav",
              <<"nearest potentially active volcano", "nearest_potentially_active_volcano",
                "nearest pav", "pav">>),
      Mapping("lahar", <<"lahar">>),
      Mapping("pyroclastic_flow",
              <<"pyroclastic flow", "pyroclastic_flow", "pdc", "pyroclastic density current">>),
      Mapping("base_surge", <<"base surge", "base_surge">>),
      Mapping("lava_flow", <<"lava flow", "lava_flow">>),
      Mapping("ballistic_projectile",
              <<"ballistic projectile", "ballistic_projectile", "ballistic projectiles">>),
      Mapping("volcanic_tsunami", <<"volcanic tsunami", "volcanic_tsunami">>)>>

DictIndex(d, key) ==
    IF \E k \in 1..Len(d) : d[k].key = key
    THEN CHOOSE k \in 1..Len(d) : d[k].key = key
    ELSE 0

\* d[key] = value
DictPut(d, key, value) ==
    IF DictIndex(d, key) = 0 THEN Append(d, [key |-> key, value |-> value])
    ELSE [d EXCEPT ![DictIndex(d, key)] = [key |-> key, value |-> value]]

\* d.get(key, default)
DictGet(d, key, default) ==
    IF DictIndex(d, key) = 0 THEN default ELSE d[DictIndex(d, key)].value

\* dict(zip(keys, values)): the pairs up to the shorter length, a later key replacing
\* an equal earlier one
DictZip(keys, values) ==
    LET RECURSIVE DictZipUpTo(_)
        DictZipUpTo(n) ==
            IF n = 0 THEN <<>>
            ELSE DictPut(DictZipUpTo(n - 1), keys[n], values[n])
    IN  DictZipUpTo(IF Len(keys) < Len(values) THEN Len(keys) ELSE Len(values))

IsMember(x, seq) == \E k \in 1..Len(seq) : seq[k] = x

NormalizeFieldName(field) ==
    LET field_lower == Strip(Lower(field))
        hits == {k \in 1..Len(FieldMappings) :
                    \/ IsMember(field_lower, FieldMappings[k].variations)
                    \/ field_lower = FieldMappings[k].canonical}
    IN  IF hits = {} THEN None
        ELSE FieldMappings[CHOOSE k \in hits : \A j \in hits : k <= j].canonical

\* the loop of lines 363-367 over the first n items of row_data
RECURSIVE NormalizedUpTo(_, _)
NormalizedUpTo(row_data, n) ==
    IF n = 0 THEN <<>>
    ELSE LET canonical == NormalizeFieldName(row_data[n].key)
             before == NormalizedUpTo(row_data, n - 1)
         IN  IF canonical # None THEN DictPut(before, canonical, row_data[n].value)
             ELSE before

AllDigitsOr(s, extra) ==
    \A k \in 1..Len(s) : IsDigit(CharAt(s, k)) \/ CharAt(s, k) = extra

\* int(s) for a string: surrounding whitespace, a sign, and single underscores
\* between digits are accepted; anything else raises ValueError
ParseInt(s) ==
    LET Value(negative, body, digits) ==
            IF /\ body # ""
               /\ AllDigitsOr(body, "_")
               /\ IsDigit(CharAt(body, 1))
               /\ IsDigit(CharAt(body, Len(body)))
               /\ ~Contains(body, "__")
            THEN [ok |-> TRUE,
                  value |-> IF negative THEN 0 - DigitsValue(digits, Len(digits))
                            ELSE DigitsValue(digits, Len(digits))]
            ELSE [ok |-> FALSE, error |-> "ValueError"]
        Signed(t, body) == Value(StartsAt(t, 1, "-"), body, Replace(body, "_", ""))
        Stripped(t) ==
            Signed(t, IF t # "" /\ CharAt(t, 1) \in {"+", "-"} THEN From(t, 2) ELSE t)
    IN  Stripped(Strip(s))

\* whether float(s) accepts the string, for plain decimal literals
IsFloat(s) ==
    LET Literal(body) ==
            /\ body # ""
            /\ AllDigitsOr(body, ".")
            /\ Cardinality({k \in 1..Len(body) : CharAt(body, k) = "."}) <= 1
            /\ \E k \in 1..Len(body) : IsDigit(CharAt(body, k))
        Stripped(t) ==
            Literal(IF t # "" /\ CharAt(t, 1) \in {"+", "-"} THEN From(t, 2) ELSE t)
    IN  Stripped(Strip(s))

\* from_string taking a lone number as a longitude
CoordinateFromLongitude(coord_str) ==
    LET Unpacked(parts) ==
            IF Len(parts) > 2 THEN [ok |-> FALSE, error |-> "ValueError"]
            ELSE IF \E k \in 1..Len(parts) : ~IsFloat(parts[k])
            THEN [ok |-> FALSE, error |-> "ValueError"]
            ELSE [ok |-> TRUE, longitude |-> Strip(parts[1]),
                  latitude |-> IF Len(parts) = 2 THEN Strip(parts[2]) ELSE "0"]
    IN  Unpacked(Split(coord_str, ","))

\* Coordinate.from_string
CoordinateFromString(coord_str) ==
    LET Unpacked(parts) ==
            IF Len(parts) # 2 THEN [ok |-> FALSE, error |-> "ValueError"]
            ELSE IF ~IsFloat(parts[1]) \/ ~IsFloat(parts[2])
            THEN [ok |-> FALSE, error |-> "ValueError"]
            ELSE [ok |-> TRUE, longitude |-> Strip(parts[1]), latitude |-> Strip(parts[2])]
    IN  Unpacked(Split(coord_str, ","))

FeatureTypeOf(feature_str) ==
    LET feature_lower == Lower(feature_str)
    IN  IF Contains(feature_lower, "polygon") THEN "Polygon"
        ELSE IF Contains(feature_lower, "point") THEN "Point"
        ELSE IF Contains(feature_lower, "line") THEN "Line"
        ELSE "Polygon"

\* lines 417-426 of _parse_row_data: the seismic payload
EarthquakeFields(normalized, category) ==
    IF category = "Earthquake"
    THEN [isNone |-> FALSE,
          active_fault |-> DictGet(normalized, "active_fault", None),
          liquefaction |-> DictGet(normalized, "liquefaction", None),
          landslide |-> DictGet(normalized, "landslide", None),
          tsunami |-> DictGet(normalized, "tsunami", None),
          fissure |-> DictGet(normalized, "fissure", None)]
    ELSE [isNone |-> TRUE]

\* the volcanic payload filled from the row's columns whatever the category
VolcanoFieldsOfAnyRow(normalized, category) ==
    [isNone |-> FALSE,
     nearest_active_volcano |-> DictGet(normalized, "nearest_active_volcano", None),
     nearest_pav |-> DictGet(normalized, "nearest_pav", None),
     fissure |-> DictGet(normalized, "fissure", None),
     lahar |-> DictGet(normalized, "lahar", None),
     pyroclastic_flow |-> DictGet(normalized, "pyroclastic_flow", None),
     base_surge |-> DictGet(normalized, "base_surge", None),
     lava_flow |-> DictGet(normalized, "lava_flow", None),
     ballistic_projectile |-> DictGet(normalized, "ballistic_projectile", None),
     volcanic_tsunami |-> DictGet(normalized, "volcanic_tsunami", None)]

\* lines 428-441 of _parse_row_data: the volcanic payload
VolcanoFields(normalized, category) ==
    IF category = "Volcano"
    THEN [isNone |-> FALSE,
          nearest_active_volcano |-> DictGet(normalized, "nearest_active_volcano", None),
          nearest_pav |-> DictGet(normalized, "nearest_pav", None),
          fissure |-> DictGet(normalized, "fissure", None),
          lahar |-> DictGet(normalized, "lahar", None),
          pyroclastic_flow |-> DictGet(normalized, "pyroclastic_flow", None),
          base_surge |-> DictGet(normalized, "base_surge", None),
          lava_flow |-> DictGet(normalized, "lava_flow", None),
          ballistic_projectile |-> DictGet(normalized, "ballistic_projectile", None),
          volcanic_tsunami |-> DictGet(normalized, "volcanic_tsunami", None)]
    ELSE [isNone |-> TRUE]

\* TableParser._parse_row_data; a missing Assessment is NoAssessment
ParseRowData(row_data) ==
    LET CategoryOf(category_lower) ==
            IF Contains(category_lower, "earthquake") THEN "Earthquake"
            ELSE IF Contains(category_lower, "volcano") THEN "Volcano"
            ELSE None
        \* lines 374-451, given the id, category and location as converted
        Built(normalized, id, category_str, category, location_str, location) ==
            IF ~id.ok THEN [isNone |-> TRUE]
            ELSE IF ~Truthy(category_str) THEN [isNone |-> TRUE]
            ELSE IF category = None THEN [isNone |-> TRUE]
            ELSE IF ~Truthy(location_str) \/ location_str = "--" THEN [isNone |-> TRUE]
            ELSE IF ~location.ok THEN [isNone |-> TRUE]
            ELSE [id |-> id.value,
                  category |-> category,
                  feature_type |->
                      FeatureTypeOf(DictGet(normalized, "feature_type", "Polygon")),
                  location |-> location,
                  earthquake |-> EarthquakeFields(normalized, category),
                  volcano |-> VolcanoFields(normalized, category),
                  vicinity_map_provided |-> TRUE]
        \* lines 370-372, then the conversions
        Extracted(normalized, assessment_id, category_str, location_str) ==
            IF ~Truthy(assessment_id) THEN [isNone |-> TRUE]
            ELSE Built(normalized, ParseInt(assessment_id), category_str,
                       CategoryOf(Lower(category_str)), location_str,
                       CoordinateFromString(location_str))
        Normalized(normalized) ==
            Extracted(normalized, DictGet(normalized, "assessment", None),
                      DictGet(normalized, "category", ""), DictGet(normalized, "location", ""))
    IN  Normalized(NormalizedUpTo(row_data, Len(row_data)))

-----------------------------------------------------------------------------
(* TableParser: the four layouts *)

ParseReturned(items) == [kind |-> "returned", items |-> items]

ParseRaised(e) == [kind |-> "raise", error |-> e]

Least(S) == CHOOSE x \in S : \A y \in S : x <= y

\* [line.strip() for line in text.split('\n') if line.strip()]
StrippedLines(txt) ==
    LET parts == Split(txt, "\n")
    IN  SelectSeq([k \in 1..Len(parts) |-> Strip(parts[k])], LAMBDA line : line # "")

\* the same step putting each found Assessment in front
PrependValid(assessments, a) ==
    IF a = [isNone |-> TRUE] THEN assessments ELSE <<a>> \o assessments

\* if assessment: assessments.append(assessment)
AppendValid(assessments, a) ==
    IF a = [isNone |-> TRUE] THEN assessments ELSE Append(assessments, a)

\* the row loop: _parse_row_data on the first n rows, keeping what it returns
RECURSIVE CollectUpTo(_, _)
CollectUpTo(rows, n) ==
    IF n = 0 THEN <<>>
    ELSE AppendValid(CollectUpTo(rows, n - 1), ParseRowData(rows[n]))

\* re.match(r'^\d+\s+', line)
IsDataRowStart(line) ==
    /\ line # ""
    /\ IsDigit(CharAt(line, 1))
    /\ SkipDigits(line, 1) <= Len(line)
    /\ IsSpace(CharAt(line, SkipDigits(line, 1)))

\* re.split(r'\s{2,}|\t', line): a run of two or more whitespace characters,
\* or a lone tab, separates; a lone space does not
\* a separator starts at a whitespace run of two or more, or at a lone tab
RECURSIVE ReSplitFrom(_, _)
ReSplitFrom(line, start) ==
    LET IsSeparatorStart(k) ==
            /\ IsSpace(CharAt(line, k))
            /\ (k = 1 \/ ~IsSpace(CharAt(line, k - 1)))
            /\ (SkipSpaces(line, k) - k >= 2 \/ CharAt(line, k) = "\t")
        seps == {k \in start..Len(line) : IsSeparatorStart(k)}
        i == CHOOSE k \in seps : \A j \in seps : k <= j
    IN  IF seps = {} THEN <<SubSeq(line, start, Len(line))>>
        ELSE <<SubSeq(line, start, i - 1)>> \o ReSplitFrom(line, SkipSpaces(line, i))

\* lines 136-193 of _parse_ohas_native: the data rows as dictionaries, or the
\* error raised when no header or no data row is found
NativeRows(lines) ==
    LET \* values + ['--'] * (len(headers) - len(values))
        PadValues(values, n) ==
            IF Len(values) >= n THEN values
            ELSE values \o [k \in 1..(n - Len(values)) |-> "--"]
        IsFooter(line) ==
            Contains(Lower(line), "no files") \/ Contains(Lower(line), "attached")
        Rows(headers, dataLines) ==
            [kind |-> "rows",
             rows |-> [k \in 1..Len(dataLines) |->
                          DictZip(headers,
                                  PadValues(ReSplitFrom(dataLines[k], 1), Len(headers)))]]
        \* the headers, and the lines before the footer that match r'^\d+'
        Data(header_start_idx, data_start_idx, footerHits) ==
            Rows([k \in 1..(data_start_idx - header_start_idx) |->
                     Strip(Lower(lines[header_start_idx + k - 1]))],
                 SelectSeq(SubSeq(lines, data_start_idx,
                                  IF footerHits = {} THEN Len(lines)
                                  ELSE Least(footerHits) - 1),
                           LAMBDA line : line # "" /\ IsDigit(CharAt(line, 1))))
        DataStart(header_start_idx, dataHits) ==
            IF dataHits = {} THEN ParseRaised("TableParseError")
            ELSE Data(header_start_idx, Least(dataHits),
                      {k \in Least(dataHits)..Len(lines) : IsFooter(lines[k])})
        HeaderStart(headerHits) ==
            IF headerHits = {} THEN ParseRaised("TableParseError")
            ELSE DataStart(Least(headerHits),
                           {k \in Least(headerHits)..Len(lines) : IsDataRowStart(lines[k])})
    IN  HeaderStart({k \in 1..Len(lines) :
                        IsMember(Lower(lines[k]),
                                 <<"assessment", "category", "feature type", "location">>)})

\* the row loop on the rows found, and what the parser returns; the native and
\* markdown parsers raise on an empty list (strict), the TSV parser does not
CollectRows(r, strict) ==
    LET Checked(assessments) ==
            IF strict /\ assessments = <<>> THEN ParseRaised("TableParseError")
            ELSE ParseReturned(assessments)
    IN  IF r.kind = "raise" THEN r ELSE Checked(CollectUpTo(r.rows, Len(r.rows)))

\* TableParser._parse_ohas_native
ParseOhasNative(txt) == CollectRows(NativeRows(StrippedLines(txt)), TRUE)

\* re.match(r'^\|\s*[-:]+\s*(\|\s*[-:]+\s*)*\|$', line)
IsSeparatorRow(line) ==
    LET IsDashCell(cell) ==
            /\ Strip(cell) # ""
            /\ \A k \in 1..Len(Strip(cell)) : CharAt(Strip(cell), k) \in {"-", ":"}
        Cells(parts) ==
            /\ Len(parts) >= 3
            /\ parts[1] = ""
            /\ parts[Len(parts)] = ""
            /\ \A k \in 2..(Len(parts) - 1) : IsDashCell(parts[k])
    IN  Cells(Split(line, "|"))

\* a line the row loop of lines 239-244 keeps
IsTableRow(line) == StartsAt(line, 1, "|") /\ ~IsSeparatorRow(line)

\* [c.strip() for c in line.split('|')[1:-1]]
PipeCells(line) ==
    LET parts == Split(line, "|")
        inner == SubSeq(parts, 2, Len(parts) - 1)
    IN  [k \in 1..Len(inner) |-> Strip(inner[k])]

\* str.split() without a separator
RECURSIVE SplitWhitespace(_)
SplitWhitespace(s) ==
    LET RECURSIVE SkipNonSpaces(_)
        SkipNonSpaces(k) ==
            IF k <= Len(s) /\ ~IsSpace(CharAt(s, k)) THEN SkipNonSpaces(k + 1) ELSE k
        i == SkipSpaces(s, 1)
        j == SkipNonSpaces(i)
    IN  IF i > Len(s) THEN <<>>
        ELSE <<SubSeq(s, i, j - 1)>> \o SplitWhitespace(From(s, j))

\* re.sub(r'\[([^\]]+)\]\([^\)]+\)', r'\1', header), scanning from position i
RECURSIVE RemoveLinksFrom(_, _)
RemoveLinksFrom(s, i) ==
    LET j == FindFrom(s, "]", i + 1)
        k == FindFrom(s, ")", j + 2)
        isLink == /\ CharAt(s, i) = "["
                  /\ j > i + 1
                  /\ StartsAt(s, j + 1, "(")
                  /\ k > j + 2
    IN  IF i > Len(s) THEN ""
        ELSE IF isLink THEN SubSeq(s, i + 1, j - 1) \o RemoveLinksFrom(s, k + 1)
        ELSE CharAt(s, i) \o RemoveLinksFrom(s, i + 1)

CleanHeaders(headers) ==
    [k \in 1..Len(headers) |->
        Strip(Lower(Join(SplitWhitespace(RemoveLinksFrom(headers[k], 1)), " ")))]

\* lines 214-246 of _parse_markdown_table: the data rows as dictionaries, or the
\* error raised when no header row is found
MarkdownRows(lines) ==
    LET Rows(headers, dataLines) ==
            [kind |-> "rows",
             rows |-> [k \in 1..Len(dataLines) |-> DictZip(headers, PipeCells(dataLines[k]))]]
        Header(headerHits) ==
            IF headerHits = {} THEN ParseRaised("TableParseError")
            ELSE Rows(CleanHeaders(PipeCells(lines[Least(headerHits)])),
                      SelectSeq(SubSeq(lines, Least(headerHits) + 1, Len(lines)), IsTableRow))
    IN  Header({k \in 1..Len(lines) :
                   StartsAt(lines[k], 1, "|") /\ CharAt(lines[k], Len(lines[k])) = "|"
                       /\ ~IsSeparatorRow(lines[k])})

\* TableParser._parse_markdown_table
ParseMarkdownTable(txt) == CollectRows(MarkdownRows(StrippedLines(txt)), TRUE)

\* lines 267-273 of _parse_tsv: lines[0] of an empty list raises IndexError
TsvRows(lines) ==
    LET Rows(headers) ==
            [kind |-> "rows",
             rows |-> [k \in 1..(Len(lines) - 1) |->
                          DictZip(headers, Split(lines[k + 1], "\t"))]]
    IN  IF lines = <<>> THEN ParseRaised("IndexError")
        ELSE Rows(CleanHeaders(Split(lines[1], "\t")))

\* TableParser._parse_tsv
ParseTsv(txt) == CollectRows(TsvRows(StrippedLines(txt)), FALSE)

\* extract_field: re.search(rf"{label}\s*:?\s*(.+)", text, re.IGNORECASE) and the
\* stripped group; lowered is text.lower(), labels are lower-case
ExtractFieldIn(label, txt, lowered) ==
    LET \* the characters from position i to the end of its line
        RestOfLine(i) ==
            IF FindFrom(txt, "\n", i) = 0 THEN From(txt, i)
            ELSE SubSeq(txt, i, FindFrom(txt, "\n", i) - 1)
        Group(at, p1, p3) ==
            IF at = 0 THEN ""
            ELSE IF p1 > Len(txt) THEN ""
            ELSE IF CharAt(txt, p1) # ":" THEN Strip(RestOfLine(p1))
            ELSE IF p3 <= Len(txt) THEN Strip(RestOfLine(p3))
            ELSE IF \E q \in (p1 + 1)..Len(txt) : CharAt(txt, q) # "\n" THEN ""
            ELSE ":"
        After(at, p1) == Group(at, p1, SkipSpaces(txt, p1 + 1))
        Found(at) == After(at, SkipSpaces(txt, at + Len(label)))
    IN  Found(FindFrom(lowered, label, 1))

\* the value of the first variation that extracts a non-empty value, else ""
FirstValue(variations, txt, lowered) ==
    LET hits == {k \in 1..Len(variations) : ExtractFieldIn(variations[k], txt, lowered) # ""}
    IN  IF hits = {} THEN "" ELSE ExtractFieldIn(variations[Least(hits)], txt, lowered)

\* the loop of lines 304-309 over the first n canonical names
RECURSIVE FieldsUpTo(_, _, _)
FieldsUpTo(txt, lowered, n) ==
    LET value == FirstValue(FieldMappings[n].variations, txt, lowered)
        before == FieldsUpTo(txt, lowered, n - 1)
    IN  IF n = 0 THEN <<>>
        ELSE IF value # "" THEN DictPut(before, FieldMappings[n].canonical, value)
        ELSE before

ParseFieldBased(txt) == ParseRowData(FieldsUpTo(txt, Lower(txt), Len(FieldMappings)))

\* the same test order with the tab test first
DetectLayoutTabFirst(txt) ==
    IF Contains(txt, "\t") THEN "tsv"
    ELSE IF Contains(txt, "Hazard Assessment") \/ Contains(txt, "Displaying") THEN "native"
    ELSE IF Contains(txt, "|") /\ Contains(txt, "\n") THEN "markdown"
    ELSE "field"

\* the if/elif chain of parse_from_text, on the stripped text
DetectLayout(txt) ==
    IF Contains(txt, "Hazard Assessment") \/ Contains(txt, "Displaying") THEN "native"
    ELSE IF Contains(txt, "|") /\ Contains(txt, "\n") THEN "markdown"
    ELSE IF Contains(txt, "\t") THEN "tsv"
    ELSE "field"

\* TableParser.parse_from_text, with the layout whose parser ran
ParseFromText(txt) ==
    LET stripped == Strip(txt)
        layout == DetectLayout(stripped)
    IN  [layout |-> layout]
        @@ (CASE layout = "native" -> ParseOhasNative(stripped)
              [] layout = "markdown" -> ParseMarkdownTable(stripped)
              [] layout = "tsv" -> ParseTsv(stripped)
              [] layout = "field" -> ParseReturned(<<ParseFieldBased(stripped)>>))

-----------------------------------------------------------------------------
(* Inputs of the parser: summary tables in the four layouts *)

TableHeaders ==
    <<"Assessment", "Category", "Feature Type", "Location", "Active Fault",
      "Liquefaction", "Landslide", "Tsunami", "Nearest Active Volcano", "Lahar">>

EarthquakeRow ==
    <<"24777", "Earthquake", "Polygon", "125.083337,11.772125",
      "Safe; Approximately 458 meters west of the Central Samar Fault",
      "Safe", "Least Susceptible", "Safe", "--", "--">>

VolcanoRow ==
    <<"24778", "Volcano", "Polygon", "125.072479,11.788131", "--", "--", "--", "--",
      "Approximately 67.7 kilometers east of Biliran Volcano", "Safe">>

RowKinds == {"eq", "vol", "badid", "noloc", "unkcat", "badloc"}

\* the cells of a data row of each kind
RowValues(kind) ==
    CASE kind = "eq" -> EarthquakeRow
      [] kind = "vol" -> VolcanoRow
      [] kind = "badid" -> [EarthquakeRow EXCEPT ![1] = "N/A"]
      [] kind = "noloc" -> [VolcanoRow EXCEPT ![1] = "24779", ![4] = "--"]
      [] kind = "unkcat" -> [EarthquakeRow EXCEPT ![1] = "24780", ![2] = "Flood"]
      [] kind = "badloc" -> [VolcanoRow EXCEPT ![1] = "24781", ![4] = "125.072479"]
      [] kind = "mixed" ->
            [EarthquakeRow EXCEPT ![1] = "24782",
                                  ![9] = "Approximately 67.7 kilometers east of Biliran Volcano",
                                  ![10] = "Highly Prone"]

MaxRows == 2

RowLines(rows, sep) == [k \in 1..Len(rows) |-> Join(RowValues(rows[k]), sep)]

\* the job listing as copied from the browser
NativeText(rows, banner, sep) ==
    Join(<<banner, "Displaying 1-" \o ToString(Len(rows)) \o " of "
                       \o ToString(Len(rows)) \o " results.">>
         \o TableHeaders \o <<"">> \o RowLines(rows, sep) \o <<"No Files Attached">>, "\n")

MarkdownText(headers, rows, sep) ==
    LET MarkdownLine(cells, s) == "| " \o Join(cells, s) \o " |"
    IN
    Join(<<MarkdownLine(headers, sep), MarkdownLine([k \in 1..Len(headers) |-> "---"], " | ")>>
         \o [k \in 1..Len(rows) |-> MarkdownLine(RowValues(rows[k]), sep)], "\n")

TsvText(rows) == Join(<<Join(TableHeaders, "\t")>> \o RowLines(rows, "\t"), "\n")

FieldText(labels, kind) ==
    Join([k \in 1..Len(labels) |-> labels[k] \o ": " \o RowValues(kind)[k]], "\n")

Input(layout, rows, txt) == [layout |-> layout, rows |-> rows, text |-> txt]

\* every table of up to MaxRows rows, in each of the three table layouts
TableInputs ==
    LET RowSeqs == UNION {[1..n -> RowKinds] : n \in 0..MaxRows}
    IN
    {Input("native", rows, NativeText(rows, "Hazard Assessment", "    ")) : rows \in RowSeqs}
    \cup {Input("native", rows, NativeText(rows, "Hazard Assessment | OHAS", "\t")) :
             rows \in RowSeqs}
    \cup {Input("markdown", rows, MarkdownText(TableHeaders, rows, " | ")) : rows \in RowSeqs}
    \cup {Input("tsv", rows, TsvText(rows)) : rows \in RowSeqs}

OtherTexts ==
    {"",
     "This is not a valid table format at all!",
     "24777 | Earthquake\tPolygon",
     "| Assessment | Category |",
     "Assessment\tCategory\n\n",
     "  " \o TsvText(<<"vol", "eq">>) \o "\n",
     NativeText(<<"eq">>, "hazard assessment", "    "),
     Join(<<"Displaying 1-1 of 1 result.">> \o TableHeaders \o RowLines(<<"vol">>, "    "), "\n"),
     Join(<<"Hazard Assessment">> \o RowLines(<<"eq">>, "    "), "\n"),
     Join(<<"Hazard Assessment">> \o TableHeaders, "\n"),
     MarkdownText(TableHeaders, <<"eq", "vol">>, "\t| "),
     MarkdownText([TableHeaders EXCEPT ![1] = "[Assessment](https://ohas.example/list)"],
                  <<"vol", "eq">>, " | "),
     "|---|---|\n|:--|--:|",
     FieldText([TableHeaders EXCEPT ![1] = "Request"], "eq"),
     FieldText([TableHeaders EXCEPT ![1] = "ID"], "vol"),
     "Assessment 24777 Category: Earthquake\nLocation:\n 125.083337,11.772125\nLiq: Safe",
     "Category: Volcano\nLocation: 1,2\nAssessment:",
     TsvText(<<"mixed", "vol">>),
     MarkdownText(TableHeaders, <<"mixed">>, " | "),
     FieldText(TableHeaders, "mixed")}

ParserTexts ==
    {inp.text : inp \in TableInputs}
    \cup {FieldText(TableHeaders, kind) : kind \in RowKinds}
    \cup OtherTexts

-----------------------------------------------------------------------------
(* The /generate route (app/routes/api.py) *)

MaxInputSize == 10240

\* the loop of generate_har over the first n assessments; an exception ends it
RECURSIVE ResultsUpTo(_, _, _)
ResultsUpTo(assessments, sch, n) ==
    LET Looped(before, har) ==
            IF ~before.ok THEN before
            ELSE IF assessments[n] = [isNone |-> TRUE]
            THEN [ok |-> FALSE, error |-> "AttributeError"]
            ELSE IF har.kind # "report" THEN [ok |-> FALSE, error |-> har.error]
            ELSE [ok |-> TRUE,
                  results |-> Append(before.results,
                                     [assessment_id |-> assessments[n].id,
                                      category |-> assessments[n].category,
                                      har_text |-> ToText(har)])]
    IN  IF n = 0 THEN [ok |-> TRUE, results |-> <<>>]
        ELSE Looped(ResultsUpTo(assessments, sch, n - 1),
                    ProcessAssessmentOf(assessments[n], sch))

\* lines 40-61 of generate_har: the loop over what the parser returned; any
\* exception, of the parser or of the engine, becomes the 500 response
Generate(assessments, sch) ==
    LET Response(looped) ==
            IF ~looped.ok
            THEN [status |-> 500, error |-> "Failed to generate HAR. Please check input format."]
            ELSE [status |-> 200, success |-> TRUE, hars |-> looped.results]
    IN  IF assessments.kind = "raise"
        THEN [status |-> 500, error |-> "Failed to generate HAR. Please check input format."]
        ELSE Response(ResultsUpTo(assessments.items, sch, Len(assessments.items)))

\* generate_har: the JSON response and its status code
GenerateHar(summary, sch) ==
    LET summary_table == Strip(summary)
    IN  IF summary_table = ""
        THEN [status |-> 400, error |-> "No summary table provided"]
        ELSE IF Len(summary_table) > MaxInputSize
        THEN [status |-> 400,
              error |-> "Input too large. Maximum " \o ToString(MaxInputSize)
                            \o " bytes allowed."]
        ELSE Generate(ParseFromText(summary_table), sch)

-----------------------------------------------------------------------------
(* The parser and the route, called on a summary table *)

InitParser ==
    /\ component = "parser"
    /\ text \in ParserTexts
    /\ parsed = NoResult
    /\ hars = NoResult
    /\ rendered = NoResult /\ data = NoResult /\ loaded = NoResult /\ calls = <<>>
    /\ pc = "ready"
    /\ assessment = NoAssessment /\ report = NoResult /\ schema = FullSchema
    /\ status = None /\ volcano = None /\ conditions = <<>> /\ matched = NoResult

\* TableParser.parse_from_text(text)
CallParseFromText ==
    /\ component = "parser"
    /\ pc = "ready"
    /\ parsed' = ParseFromText(text)
    /\ pc' = "parsed"
    /\ UNCHANGED <<data, loaded, component, schema, assessment, report, status, volcano, conditions,
                   matched, text, hars, rendered, calls>>

\* POST /generate with the text as summary_table
PostGenerate ==
    /\ component = "parser"
    /\ pc = "ready"
    /\ hars' = GenerateHar(text, schema)
    /\ pc' = "responded"
    /\ UNCHANGED <<data, loaded, component, schema, assessment, report, status, volcano, conditions,
                   matched, text, parsed, rendered, calls>>

NextParser == CallParseFromText \/ PostGenerate

ParserSpec == InitParser /\ [][NextParser]_vars

-----------------------------------------------------------------------------
(* The whole pipeline *)

-----------------------------------------------------------------------------
(* Several callers on the one engine of the route (app/routes/api.py:18-21) *)

NumCallers == 2

Callers == 1..NumCallers

\* the requests the callers send: every category with every payload, and a site
\* near Mayon with several hazards
SharedInputs ==
    MismatchInputs
    \cup {a \in ProximityInputs :
            /\ a.volcano.nearest_active_volcano = Narrative("5.5", "km", "north", "Mayon")
            /\ a.volcano.lahar = "Highly Prone"
            /\ a.volcano.pyroclastic_flow = "Prone; Within buffer zone"
            /\ a.volcano.lava_flow = "Prone"}

\* the frame of a call of process_assessment that has not run a step yet
Called(a) == [pc |-> "called", assessment |-> a, sections |-> NoResult, report |-> NoResult]

\* a step that takes the lahar rule out of the schema once it has read it
SchemaAfterStepPoppingRule(sch, a) ==
    IF a.category = "Volcano"
    THEN [sch EXCEPT !.volcano_rules = [k \in (DOMAIN @) \ {"lahar"} |-> @[k]]]
    ELSE sch

\* self.schema after a step of process_assessment: the only assignments to the
\* engine are those of __init__, and the steps append to their local lists
SchemaAfterStep(sch, a) == sch

\* the local list `sections` once the hazard steps have read their rules from
\* the schema, or the exception that left them
SectionsRead(a, sch) ==
    LET har == ProcessAssessmentOf(a, sch)
    IN  IF har.kind = "report" THEN [kind |-> "sections", sections |-> har.sections]
        ELSE har

\* the HAROutput of the call: the Sections it holds with the statements read
\* from the schema now
ReportReturned(sections, har) ==
    IF sections.kind # "sections" THEN sections
    ELSE IF har.kind # "report" THEN har
    ELSE [har EXCEPT !.sections = sections.sections]

InitShared ==
    /\ component = "shared"
    /\ schema \in Schemas
    /\ calls \in [Callers -> {Called(a) : a \in SharedInputs}]
    /\ pc = "ready"
    /\ assessment = NoAssessment /\ report = NoResult
    /\ status = None /\ volcano = None /\ conditions = <<>> /\ matched = NoResult
    /\ text = None /\ parsed = NoResult /\ hars = NoResult /\ rendered = NoResult /\ data = NoResult /\ loaded = NoResult

\* the call of caller c runs its hazard steps
RunHazardSteps(c) ==
    /\ component = "shared"
    /\ calls[c].pc = "called"
    /\ calls' = [calls EXCEPT ![c].pc = "sections",
                              ![c].sections = SectionsRead(calls[c].assessment, schema)]
    /\ schema' = SchemaAfterStep(schema, calls[c].assessment)
    /\ UNCHANGED <<data, loaded, component, assessment, pc, report, status, volcano, conditions, matched,
                   text, parsed, hars, rendered>>

\* the call of caller c adds the common statements and returns its HAROutput
ReturnReport(c) ==
    /\ component = "shared"
    /\ calls[c].pc = "sections"
    /\ calls' = [calls EXCEPT ![c].pc = "returned",
                              ![c].report = ReportReturned(calls[c].sections,
                                                     ProcessAssessmentOf(calls[c].assessment,
                                                                         schema))]
    /\ schema' = SchemaAfterStep(schema, calls[c].assessment)
    /\ UNCHANGED <<data, loaded, component, assessment, pc, report, status, volcano, conditions, matched,
                   text, parsed, hars, rendered>>

NextShared == \E c \in Callers : RunHazardSteps(c) \/ ReturnReport(c)

SharedSpec == InitShared /\ [][NextShared]_vars

-----------------------------------------------------------------------------
(* SchemaLoader (parser/schema_loader.py) and HazardRulesSchema.from_dict *)

\* required_keys of _validate_structure
RequiredKeys ==
    {"metadata", "earthquake_rules", "volcano_rules", "decision_logic",
     "fuzzy_logic_parameters"}

\* earthquake_hazards of _validate_structure
EarthquakeHazards ==
    {"active_fault", "liquefaction", "tsunami", "earthquake_induced_landslide", "fissure"}

\* volcano_hazards of _validate_structure
VolcanoHazards ==
    {"pdz_danger_zone", "lava_flow", "pyroclastic_density_current", "base_surge",
     "ballistic_projectiles", "lahar", "volcanic_tsunami", "fissure",
     "potentially_active_volcano"}

\* a rule of the schema file that is a JSON object: the three entries from_dict
\* reads, and the object's other entries
JsonObject(explanation, recommendation, special_cases, others) ==
    [isDict |-> TRUE, explanation |-> explanation, recommendation |-> recommendation,
     special_cases |-> special_cases, others |-> others]

\* a rule of the schema file that is null
JsonNull == [isDict |-> FALSE]

\* the rule map of the file a rule map of the schema was loaded from
JsonRules(rules) ==
    [k \in DOMAIN rules |->
        IF ~Truthy(rules[k].explanation) /\ ~Truthy(rules[k].recommendation)
        THEN JsonObject(None, None, NoCases, rules[k].special_cases)
        ELSE JsonObject(rules[k].explanation, rules[k].recommendation,
                        rules[k].special_cases, NoCases)]

\* the 'potentially_active_volcano' rule, which the engine does not read
PavRule == [potentially_active_volcano |-> Rule("PAV explanation.", None, NoCases)]

\* a schema file that holds a JSON object
Document(keys, earthquake_rules, volcano_rules) ==
    [kind |-> "object", keys |-> keys, earthquake_rules |-> earthquake_rules,
     volcano_rules |-> volcano_rules]

\* a rule map as it is, with one of the hazards left out, or with one set to null
RuleMapVariants(rules, hazards) ==
    {rules}
    \cup {[k \in (DOMAIN rules) \ {h} |-> rules[k]] : h \in hazards}
    \cup {[rules EXCEPT ![h] = JsonNull] : h \in hazards}

\* the schema files: none, one that is not JSON, one that holds an array, and
\* every object with at most one top-level key, one seismic rule and one
\* volcanic rule missing or null
SchemaDocuments ==
    {[kind |-> "missing"], [kind |-> "invalid"], [kind |-> "array"]}
    \cup {Document(keys, eq, vol) :
            keys \in {RequiredKeys} \cup {RequiredKeys \ {k} : k \in RequiredKeys},
            eq \in RuleMapVariants(JsonRules(FullEarthquakeRules), EarthquakeHazards),
            vol \in RuleMapVariants(JsonRules(FullVolcanoRules @@ PavRule), VolcanoHazards)}

\* _validate_structure: whether it returns without raising
ValidateStructure(doc) ==
    /\ doc.kind = "object"
    /\ \A key \in RequiredKeys : key \in doc.keys
    /\ \A hazard \in EarthquakeHazards : hazard \in DOMAIN doc.earthquake_rules
    /\ \A hazard \in VolcanoHazards : hazard \in DOMAIN doc.volcano_rules

\* HazardRulesSchema.from_dict: a rule for every key whose value is an object
FromDict(doc) ==
    LET SpecialCases(rule_data) ==
            IF /\ ~Truthy(rule_data.explanation)
               /\ ~Truthy(rule_data.recommendation)
               /\ rule_data.special_cases.isNone
            THEN rule_data.others
            ELSE rule_data.special_cases
    IN  [earthquake_rules |->
            [k \in {h \in DOMAIN doc.earthquake_rules : doc.earthquake_rules[h].isDict} |->
                Rule(doc.earthquake_rules[k].explanation,
                     doc.earthquake_rules[k].recommendation,
                     doc.earthquake_rules[k].special_cases)],
         volcano_rules |->
            [k \in {h \in DOMAIN doc.volcano_rules : doc.volcano_rules[h].isDict} |->
                Rule(doc.volcano_rules[k].explanation,
                     doc.volcano_rules[k].recommendation,
                     SpecialCases(doc.volcano_rules[k]))]]

\* SchemaLoader.load
LoadOf(doc) ==
    IF doc.kind = "missing" THEN [kind |-> "raise", error |-> "FileNotFoundError"]
    ELSE IF doc.kind = "invalid" THEN [kind |-> "raise", error |-> "SchemaValidationError"]
    ELSE IF ~ValidateStructure(doc)
    THEN [kind |-> "raise", error |-> "SchemaValidationError"]
    ELSE [kind |-> "returned", schema |-> FromDict(doc)]

InitLoader ==
    /\ component = "loader"
    /\ data \in SchemaDocuments
    /\ loaded = NoResult
    /\ schema = NoResult
    /\ pc = "ready"
    /\ assessment = NoAssessment /\ report = NoResult
    /\ status = None /\ volcano = None /\ conditions = <<>> /\ matched = NoResult
    /\ text = None /\ parsed = NoResult /\ hars = NoResult
    /\ rendered = NoResult /\ calls = <<>>

\* schema_loader.load()
Load ==
    /\ component = "loader"
    /\ pc = "ready"
    /\ loaded' = LoadOf(data)
    /\ pc' = "loaded"
    /\ UNCHANGED <<data, component, schema, assessment, report, status, volcano, conditions,
                   matched, text, parsed, hars, rendered, calls>>

\* engine = DecisionEngine(schema)
Construct ==
    /\ component = "loader"
    /\ pc = "loaded"
    /\ loaded.kind = "returned"
    /\ schema' = loaded.schema
    /\ pc' = "constructed"
    /\ UNCHANGED <<data, loaded, component, assessment, report, status, volcano, conditions,
                   matched, text, parsed, hars, rendered, calls>>

NextLoader == Load \/ Construct

LoaderSpec == InitLoader /\ [][NextLoader]_vars

\* the file holds an object that lacks a required top-level key or a hazard key
LacksRequiredKey(doc) ==
    /\ doc.kind = "object"
    /\ \/ \E key \in RequiredKeys : key \notin doc.keys
       \/ \E hazard \in EarthquakeHazards : hazard \notin DOMAIN doc.earthquake_rules
       \/ \E hazard \in VolcanoHazards : hazard \notin DOMAIN doc.volcano_rules

\* C26: load fails with SchemaValidationError whenever a required top-level key
\* or a hazard key of the two fixed lists is missing from the file, and a schema
\* that load returns holds a rule under each of the 5 seismic and 9 volcanic
\* hazard keys.
C26_LoadedSchemaComplete ==
    (component = "loader" /\ pc # "ready")
        => /\ LacksRequiredKey(data)
                => loaded = [kind |-> "raise", error |-> "SchemaValidationError"]
           /\ loaded.kind = "returned"
                => /\ EarthquakeHazards \subseteq DOMAIN loaded.schema.earthquake_rules
                   /\ VolcanoHazards \subseteq DOMAIN loaded.schema.volcano_rules

-----------------------------------------------------------------------------
Init == InitEngine \/ InitMatcher \/ InitParser \/ InitShared \/ InitLoader

Next == NextEngine \/ NextMatcher \/ NextParser \/ NextShared \/ NextLoader

Spec == Init /\ [][Next]_vars

-----------------------------------------------------------------------------
(* Properties of the parser *)

ParseDone == component = "parser" /\ pc = "parsed"

IsValidAssessment(a) ==
    /\ a # [isNone |-> TRUE]
    /\ a.category \in {"Earthquake", "Volcano"}
    /\ a.id \in Int
    /\ a.location.ok

\* C8: for every input text and layout, parse either fails with a ParseError or
\* returns a non-empty list whose elements are all valid Assessments; never an
\* empty list, never a list holding a missing record.
C8_ParseErrorOrValidList ==
    ParseDone
        => \/ (parsed.kind = "raise" /\ parsed.error = "TableParseError")
           \/ /\ parsed.kind = "returned"
              /\ parsed.items # <<>>
              /\ \A k \in 1..Len(parsed.items) : IsValidAssessment(parsed.items[k])

HasBanner(txt) == Contains(txt, "Hazard Assessment") \/ Contains(txt, "Displaying")

LineCount(txt) == Len(Split(txt, "\n"))

\* the layout the priority order of the format detection selects
LayoutByPriority(txt) ==
    LET byPriority == <<HasBanner(txt),
                        Contains(txt, "|") /\ LineCount(txt) > 1,
                        Contains(txt, "\t"),
                        TRUE>>
        names == <<"native", "markdown", "tsv", "field">>
    IN  names[Least({k \in 1..4 : byPriority[k]})]

\* C9: detection is a strict priority order on the whole input and one layout
\* parser runs: a banner phrase selects native even with '|' or tabs present,
\* else '|' with more than one line selects the pipe-delimited layout even with
\* tabs, else a tab selects tab-separated, else the field-based layout.
C9_DetectionPriority ==
    ParseDone => parsed.layout = LayoutByPriority(Strip(text))

\* a listing with the banner, a '|' and tab-separated rows, parsed as native
C9_Witness ==
    /\ ParseDone
    /\ text = NativeText(<<"eq", "vol">>, "Hazard Assessment | OHAS", "\t")
    /\ Contains(text, "|")
    /\ Contains(text, "\t")
    /\ parsed.layout = "native"
    /\ parsed.kind = "returned"
    /\ Len(parsed.items) = 2

ValidKinds == {"eq", "vol"}

ExpectedId(kind) == IF kind = "eq" THEN 24777 ELSE 24778

ExpectedCategory(kind) == IF kind = "eq" THEN "Earthquake" ELSE "Volcano"

\* the tables of one or more data rows that are all valid
ValidTables ==
    {inp \in TableInputs :
        Len(inp.rows) >= 1 /\ \A k \in 1..Len(inp.rows) : inp.rows[k] \in ValidKinds}

\* C10: a table of N valid rows of mixed categories parses to exactly N
\* Assessments in row order, each with the id and category of its own row, and
\* generating reports over it yields N results in the same order.
C10_RowOrderPreserved ==
    \A inp \in ValidTables :
        (component = "parser" /\ text = inp.text)
            => /\ pc = "parsed" =>
                    /\ parsed.kind = "returned"
                    /\ Len(parsed.items) = Len(inp.rows)
                    /\ \A k \in 1..Len(inp.rows) :
                          /\ parsed.items[k].id = ExpectedId(inp.rows[k])
                          /\ parsed.items[k].category = ExpectedCategory(inp.rows[k])
                          /\ parsed.items[k].earthquake.isNone = (inp.rows[k] # "eq")
                          /\ parsed.items[k].volcano.isNone = (inp.rows[k] # "vol")
               /\ pc = "responded" =>
                    /\ hars.status = 200
                    /\ Len(hars.hars) = Len(inp.rows)
                    /\ \A k \in 1..Len(inp.rows) :
                          /\ hars.hars[k].assessment_id = ExpectedId(inp.rows[k])
                          /\ hars.hars[k].category = ExpectedCategory(inp.rows[k])
                          /\ StartsAt(hars.hars[k].har_text, 1,
                                      Upper(ExpectedCategory(inp.rows[k])) \o " HAZARD ASSESSMENT")

\* rows 24777 Earthquake then 24778 Volcano, answered in that order
C10_Witness ==
    /\ component = "parser"
    /\ pc = "responded"
    /\ text = NativeText(<<"eq", "vol">>, "Hazard Assessment", "    ")
    /\ hars.status = 200
    /\ Len(hars.hars) = 2
    /\ hars.hars[1].assessment_id = 24777 /\ hars.hars[1].category = "Earthquake"
    /\ hars.hars[2].assessment_id = 24778 /\ hars.hars[2].category = "Volcano"

-----------------------------------------------------------------------------
(* Properties of the row resolution *)

\* the id in the first cell of a row of each kind that has one
RowId == [eq |-> 24777, vol |-> 24778, noloc |-> 24779, unkcat |-> 24780, badloc |-> 24781]

\* the ids of the table's rows whose kind is among those kept, in row order
KeptIds(rows, kept) ==
    LET chosen == SelectSeq(rows, LAMBDA kind : kind \in kept)
    IN  [k \in 1..Len(chosen) |-> RowId[chosen[k]]]

\* parsing any table resolves exactly the rows of the kept kinds, in row order,
\* and fails only with the error of a table without any resolved row
RowsResolveAs(kept) ==
    \A inp \in TableInputs :
        (ParseDone /\ text = inp.text)
            => \/ /\ parsed.kind = "returned"
                  /\ [k \in 1..Len(parsed.items) |-> parsed.items[k].id] = KeptIds(inp.rows, kept)
               \/ /\ parsed.kind = "raise"
                  /\ parsed.error = "TableParseError"
                  /\ KeptIds(inp.rows, kept) = <<>>

\* C25 as stated: a row without id, with an unrecognized category or with an
\* unparseable location is dropped without raising and without affecting the
\* rows around it, while a row whose location is "--" is kept.
C25_SentinelLocationKept == RowsResolveAs({"eq", "vol", "noloc"})

\* C25, amended: a row without id, with an unrecognized category, with an
\* unparseable location or with the location "--" is dropped without raising
\* and without affecting the rows before and after it.
C25_InvalidRowsDropped == RowsResolveAs(ValidKinds)

\* a row with a lone number as location before a valid row: only the second
\* row is resolved
C25_Witness ==
    /\ ParseDone
    /\ text = TsvText(<<"badloc", "vol">>)
    /\ parsed.kind = "returned"
    /\ Len(parsed.items) = 1
    /\ parsed.items[1].id = 24778

-----------------------------------------------------------------------------
(* Properties of the parsed payloads *)

\* the Assessment carries the payload of its category and no other
OnePayloadOfCategory(a) ==
    /\ a.category = "Earthquake" => ~a.earthquake.isNone /\ a.volcano.isNone
    /\ a.category = "Volcano" => ~a.volcano.isNone /\ a.earthquake.isNone
    /\ a.category \in {"Earthquake", "Volcano"}

\* C28: every Assessment the text parser returns, in any layout, has exactly
\* one populated payload, the one of its category, whatever other hazard
\* columns its row has.
C28_PayloadFollowsCategory ==
    (ParseDone /\ parsed.kind = "returned")
        => \A k \in 1..Len(parsed.items) :
              parsed.items[k] # NoAssessment => OnePayloadOfCategory(parsed.items[k])

\* an Earthquake row whose volcano columns hold a narrative and a lahar status
C28_Witness ==
    /\ ParseDone
    /\ text = MarkdownText(TableHeaders, <<"mixed">>, " | ")
    /\ parsed.kind = "returned"
    /\ Len(parsed.items) = 1
    /\ parsed.items[1].id = 24782
    /\ parsed.items[1].category = "Earthquake"
    /\ parsed.items[1].earthquake.liquefaction = "Safe"
    /\ parsed.items[1].volcano.isNone

====
